---------------------------- MODULE Spec2Model ----------------------------
(***************************************************************************)
(* A model of requests_throttler: the BaseThrottler (status monitor,       *)
(* requests pool, single worker loop with its timer) and the               *)
(* ThrottledRequest completion handle.                                     *)
(*                                                                         *)
(* Three specifications share the module:                                  *)
(*   Spec        the throttler with its worker thread and caller threads   *)
(*   SpecHandle  one ThrottledRequest used by setter and reader threads    *)
(*   SpecStatus  the status/counters monitor driven by a single thread     *)
(***************************************************************************)
EXTENDS Integers, Sequences, FiniteSets, TLC

(***************************************************************************)
(* Bounds of the model.                                                    *)
(***************************************************************************)
\* number of requests the callers submit in one run
MaxReqs == 2
\* the configured delay of the delayed throttler, in ticks of the clock
MaxDelay == 1
\* the configured max_pool_size of the bounded pool: the submitted requests
\* fill it and one more is refused
MaxPool == MaxReqs - 1
\* number of ticks the clock makes in one run: a whole delay
MaxTicks == MaxDelay
\* cap of the success/failure counters in SpecStatus
MaxCount == 2

(***************************************************************************)
(* Values.                                                                 *)
(***************************************************************************)
\* Python's None
None == "None"
\* no thread owns the lock
NoThread == "-"

\* outcome of a call: returned normally, or the exception it raised
OK == "ok"
InvalidStatusError == "ThrottlerStatusError: Invalid status."
InvalidTransitionError == "ThrottlerStatusError: Invalid status stransition."
KeyError == "KeyError"
ThrottledRequestAlreadyFinished == "ThrottledRequestAlreadyFinished"

(***************************************************************************)
(* throttler.py: the status table.                                         *)
(***************************************************************************)
THROTTLER_STATUS ==
    {"initialized", "running", "waiting", "paused", "stopped", "ending", "ended"}

\* a table that lost the entry 'waiting' of the key 'paused'
THROTTLER_STATUS_DEPENDENCIES_NoPausedToWaiting ==
    [s \in {"initialized", "running", "waiting", "paused", "stopped", "ending"} |->
        CASE s = "initialized" -> {"initialized", "running", "stopped"}
          [] s = "running"     -> {"running", "waiting", "paused", "stopped"}
          [] s = "waiting"     -> {"waiting", "running", "paused", "stopped"}
          [] s = "paused"      -> {"paused", "running", "stopped"}
          [] s = "stopped"     -> {"stopped", "ending"}
          [] s = "ending"      -> {"ending", "ended"}]

\* a dictionary: it has no key "ended"
THROTTLER_STATUS_DEPENDENCIES ==
    [s \in {"initialized", "running", "waiting", "paused", "stopped", "ending"} |->
        CASE s = "initialized" -> {"initialized", "running", "stopped"}
          [] s = "running"     -> {"running", "waiting", "paused", "stopped"}
          [] s = "waiting"     -> {"waiting", "running", "paused", "stopped"}
          [] s = "paused"      -> {"paused", "running", "waiting", "stopped"}
          [] s = "stopped"     -> {"stopped", "ending"}
          [] s = "ending"      -> {"ending", "ended"}]

\* a setter that assigns without looking at the table
status_setter_Unchecked(cur, new) == [status |-> new, err |-> OK]

\* BaseThrottler.status setter: the status after the call and how the call ended
status_setter(cur, new) ==
    IF new \notin THROTTLER_STATUS
    THEN [status |-> cur, err |-> InvalidStatusError]
    ELSE IF cur \notin DOMAIN THROTTLER_STATUS_DEPENDENCIES
    THEN [status |-> cur, err |-> KeyError]
    ELSE IF new \notin THROTTLER_STATUS_DEPENDENCIES[cur]
    THEN [status |-> cur, err |-> InvalidTransitionError]
    ELSE [status |-> new, err |-> OK]

(***************************************************************************)
(* State.                                                                  *)
(***************************************************************************)
VARIABLES
    \* --- BaseThrottler: the status/counters monitor
    status,         \* self._status
    successes,      \* self._successes
    failures,       \* self._failures
    last_call,      \* SpecStatus: the last call of the status setter [from, to, err]
    \* --- ThrottledRequest (SpecHandle)
    tr,             \* the handle: _finished, _response, _exception
    not_done,       \* owner of the lock of the condition self.not_done
    nd_waiters,     \* threads inside self.not_done.wait(), oldest first
    hpc,            \* where each thread is in its call
    hop,            \* the call each thread makes: [name, arg]
    hret,           \* how each thread's last call ended: [kind, val], and fin:
                    \* whether the handle was finished when the call ended
    n_set_ok,       \* number of setter calls that returned normally
    \* --- BaseThrottler (Spec)
    requests_pool,  \* self._requests_pool: the ids of the queued requests
    maxlen,         \* self._requests_pool.maxlen
    delay,          \* self._delay
    wait_enqueued,  \* self._wait_enqueued
    checkpoint,     \* self._timer._checkpoint
    now,            \* time.time()
    status_lock,    \* owner of the lock of the condition self.status_lock
    not_empty,      \* owner of the lock of the condition self.not_empty
    sl_waiters,     \* threads inside self.status_lock.wait(), oldest first
    ne_waiters,     \* threads inside self.not_empty.wait(), oldest first
    handles,        \* the ThrottledRequest objects created so far, by id
    pc,             \* where each thread is: the worker and the callers
    next_request,   \* the worker's next_request (0: none)
    w_set,          \* the worker's value for self.status = ... in _dequeue_request
    wake,           \* the instant the worker's time.sleep ends
    w_err,          \* the exception that ended the worker's _main_loop, if any
    executor_queue, \* _main_loop work items the executor has not started yet
    executor_shutdown, \* self._executor.shutdown was called
    cloc,           \* each caller's locals during a call: [req]
    last_ret,       \* log: the call that ended in the last step, if one did:
                    \* [name, err, req]
    sent,           \* history: the requests handed to session.send, in order
    last_send_at,   \* history: the instant of the last call of session.send
    enq,            \* history: the requests appended to the pool, in order
    timer_start,    \* self._timer._start
    util_call       \* log: the last call of a Timer method or of _get_delay:
                    \* [op, args, err, val]

statusVars == <<status, successes, failures, last_call>>
handleVars == <<tr, not_done, nd_waiters, hpc, hop, hret, n_set_ok>>
throttlerVars == <<requests_pool, maxlen, delay, wait_enqueued, checkpoint, now,
                   status_lock, not_empty, sl_waiters, ne_waiters, handles, pc,
                   next_request, w_set, wake, w_err, executor_queue,
                   executor_shutdown, cloc, last_ret, sent, last_send_at, enq>>
utilVars == <<timer_start, util_call>>
vars == <<statusVars, handleVars, throttlerVars, utilVars>>
\* what the steps of SpecHandle leave alone, and what those of SpecStatus do
nonHandleVars == <<statusVars, throttlerVars, utilVars>>
nonStatusVars == <<handleVars, throttlerVars, utilVars>>

(***************************************************************************)
(* throttled_request.py: the handle as a value.                            *)
(***************************************************************************)
\* what the transport returns and what it (or the preparation) raises
Responses == {"response1", "response2"}
Exceptions == {"exception"}

\* ThrottledRequest.__init__
ThrottledRequest == [finished |-> FALSE, response |-> None, exception |-> None]

\* a guard that looks at the response only
already_finished_ResponseOnly(h) == h.response # None

\* the guard of both setters: if self._finished is True
already_finished(h) == h.finished = TRUE

\* a response setter that forgets self._finished = True
response_write_NoFinished(h, response) == [h EXCEPT !.response = response]

\* ThrottledRequest.response setter: the two assignments
response_write(h, response) == [h EXCEPT !.response = response, !.finished = TRUE]

\* ThrottledRequest.exception setter: the two assignments
exception_write(h, exception) == [h EXCEPT !.exception = exception, !.finished = TRUE]

\* ThrottledRequest.response setter as one locked call, without its notify
response_setter(h, response) ==
    IF already_finished(h)
    THEN [tr |-> h, err |-> ThrottledRequestAlreadyFinished]
    ELSE [tr |-> response_write(h, response), err |-> OK]

\* ThrottledRequest.exception setter as one locked call, without its notify
exception_setter(h, exception) ==
    IF already_finished(h)
    THEN [tr |-> h, err |-> ThrottledRequestAlreadyFinished]
    ELSE [tr |-> exception_write(h, exception), err |-> OK]

\* ThrottledRequest.get_response after _wait_finished returned fin
get_response_result(h, fin) ==
    IF fin
    THEN IF h.exception = None
         THEN [kind |-> "return", val |-> h.response]
         ELSE [kind |-> "raise", val |-> h.exception]
    ELSE [kind |-> "return", val |-> None]

\* ThrottledRequest.get_exception after _wait_finished returned fin
get_exception_result(h, fin) ==
    IF fin
    THEN [kind |-> "return", val |-> h.exception]
    ELSE [kind |-> "return", val |-> None]

\* the timeouts a reader passes: None (wait for ever), 0, a positive number
Timeouts == {None, "0", "0.1"}

\* a test that takes every falsy timeout for None: if not timeout
wait_forever_Falsy(timeout) == timeout \in {None, "0"}

\* _wait_finished: if timeout is None
wait_forever(timeout) == timeout = None

\* threading.Condition.notify(): wakes the thread that waits longest, if any
notify(waiters) == IF waiters = <<>> THEN <<>> ELSE Tail(waiters)

\* a notify() that takes the waiter off the list and does not wake it
notified_Nobody(waiters) == {}

\* threading.Condition.notify(): the thread it wakes
notified(waiters) == IF waiters = <<>> THEN {} ELSE {Head(waiters)}

\* the waiters without thread t (a timed wait that expired leaves the list)
RemoveWaiter(waiters, t) == SelectSeq(waiters, LAMBDA u : u # t)

\* utils.locked: the wrapped call runs only once the lock is free
lock_free(lock) == lock = NoThread

(***************************************************************************)
(* SpecHandle: one ThrottledRequest, setter threads and reader threads.    *)
(***************************************************************************)
Setters == {"s1", "s2"}
Readers == {"r1", "r2"}
HThreads == Setters \cup Readers

SetterOps == [name : {"response"}, arg : Responses]
                 \cup [name : {"exception"}, arg : Exceptions]
ReaderOps == [name : {"get_response", "get_exception"}, arg : Timeouts]

NoOp == [name |-> None, arg |-> None]
NoRet == [kind |-> None, val |-> None, fin |-> FALSE]

InitHandleVars ==
    /\ tr = ThrottledRequest
    /\ not_done = NoThread
    /\ nd_waiters = <<>>
    /\ hpc = [t \in HThreads |-> "idle"]
    /\ hop = [t \in HThreads |-> NoOp]
    /\ hret = [t \in HThreads |-> NoRet]
    /\ n_set_ok = 0

InitStatusVars ==
    /\ status = "initialized"
    /\ successes = 0
    /\ failures = 0
    /\ last_call = [from |-> None, to |-> None, err |-> None]

\* utils.locked wrapper of a setter or a getter: with lock_to_use
H_Enter(t, op) ==
    /\ hpc[t] = "idle"
    /\ lock_free(not_done)
    /\ not_done' = t
    /\ hpc' = [hpc EXCEPT ![t] = "locked"]
    /\ hop' = [hop EXCEPT ![t] = op]
    /\ hret' = [hret EXCEPT ![t] = NoRet]
    /\ UNCHANGED <<tr, nd_waiters, n_set_ok, nonHandleVars>>

\* a setter tests self._finished and raises or goes on
S_Check(t) ==
    /\ hpc[t] = "locked"
    /\ hop[t] \in SetterOps
    /\ IF already_finished(tr)
       THEN /\ hret' = [hret EXCEPT ![t] = [kind |-> "raise",
                            val |-> ThrottledRequestAlreadyFinished, fin |-> TRUE]]
            /\ hpc' = [hpc EXCEPT ![t] = "idle"]
            /\ not_done' = NoThread
       ELSE /\ hpc' = [hpc EXCEPT ![t] = "write"]
            /\ UNCHANGED <<hret, not_done>>
    /\ UNCHANGED <<tr, nd_waiters, hop, n_set_ok, nonHandleVars>>

\* a setter stores the value, sets _finished, notifies and returns
S_Write(t) ==
    /\ hpc[t] = "write"
    /\ tr' = IF hop[t].name = "response"
             THEN response_write(tr, hop[t].arg)
             ELSE exception_write(tr, hop[t].arg)
    /\ nd_waiters' = notify(nd_waiters)
    /\ hpc' = [u \in HThreads |->
                 IF u = t THEN "idle"
                 ELSE IF u \in notified(nd_waiters) THEN "woken"
                 ELSE hpc[u]]
    /\ hret' = [hret EXCEPT ![t] = [kind |-> "return", val |-> None, fin |-> TRUE]]
    /\ not_done' = NoThread
    /\ n_set_ok' = n_set_ok + 1
    /\ UNCHANGED <<hop, nonHandleVars>>

\* a getter ends: the lock is released and the result is handed to the caller
G_Return(t, fin) ==
    /\ hret' = [hret EXCEPT ![t] =
                  LET r == IF hop[t].name = "get_response"
                           THEN get_response_result(tr, fin)
                           ELSE get_exception_result(tr, fin)
                  IN [kind |-> r.kind, val |-> r.val, fin |-> tr.finished]]
    /\ hpc' = [hpc EXCEPT ![t] = "idle"]
    /\ not_done' = NoThread
    /\ UNCHANGED <<tr, nd_waiters, hop, n_set_ok, nonHandleVars>>

\* self.not_done.wait(...): the lock is released and the thread is queued
G_Wait(t, p) ==
    /\ nd_waiters' = Append(nd_waiters, t)
    /\ hpc' = [hpc EXCEPT ![t] = p]
    /\ not_done' = NoThread
    /\ UNCHANGED <<tr, hop, hret, n_set_ok, nonHandleVars>>

\* _wait_finished, entered or resumed with the lock held
G_WaitFinished(t) ==
    /\ hpc[t] = "locked"
    /\ hop[t] \in ReaderOps
    /\ IF wait_forever(hop[t].arg)
       THEN IF ~tr.finished THEN G_Wait(t, "wait") ELSE G_Return(t, TRUE)
       ELSE G_Wait(t, "timedwait")

\* a timed wait expires: the thread leaves the list of waiters
G_Timeout(t) ==
    /\ hpc[t] = "timedwait"
    /\ nd_waiters' = RemoveWaiter(nd_waiters, t)
    /\ hpc' = [hpc EXCEPT ![t] = "woken"]
    /\ UNCHANGED <<tr, not_done, hop, hret, n_set_ok, nonHandleVars>>

\* a woken thread takes the lock again before wait() returns
G_Reacquire(t) ==
    /\ hpc[t] = "woken"
    /\ lock_free(not_done)
    /\ not_done' = t
    /\ hpc' = [hpc EXCEPT ![t] = IF wait_forever(hop[t].arg) THEN "locked" ELSE "timed"]
    /\ UNCHANGED <<tr, nd_waiters, hop, hret, n_set_ok, nonHandleVars>>

\* _wait_finished after wait(timeout): if not self._finished: return False
G_AfterTimed(t) ==
    /\ hpc[t] = "timed"
    /\ G_Return(t, tr.finished)

NextHandle ==
    \/ \E t \in Setters, op \in SetterOps : H_Enter(t, op)
    \/ \E t \in Readers, op \in ReaderOps : H_Enter(t, op)
    \/ \E t \in Setters : S_Check(t)
    \/ \E t \in Setters : S_Write(t)
    \/ \E t \in Readers : G_WaitFinished(t)
    \/ \E t \in Readers : G_Timeout(t)
    \/ \E t \in Readers : G_Reacquire(t)
    \/ \E t \in Readers : G_AfterTimed(t)

(***************************************************************************)
(* SpecStatus: the status/counters monitor driven by one thread, the way   *)
(* tests/test_base_throttler.py drives it.                                 *)
(***************************************************************************)
\* the values handed to the setter: the seven statuses and one that is none
StatusArgs == THROTTLER_STATUS \cup {"invalid-status"}

\* bt.status = new
SetStatus(new) ==
    /\ LET r == status_setter(status, new)
       IN /\ status' = r.status
          /\ last_call' = [from |-> status, to |-> new, err |-> r.err]
    /\ UNCHANGED <<successes, failures, nonStatusVars>>

\* a counter update that counts a success twice
_inc_successes_Twice(n) == n + 2

\* BaseThrottler._inc_successes
_inc_successes(n) == n + 1

\* a counter update that counts a failure twice
_inc_failures_Twice(n) == n + 2

\* a counter update that is lost
_inc_failures_Lost(n) == n

\* BaseThrottler._inc_failures
_inc_failures(n) == n + 1

MonIncSuccesses ==
    /\ successes < MaxCount
    /\ successes' = _inc_successes(successes)
    /\ UNCHANGED <<status, failures, last_call, nonStatusVars>>

MonIncFailures ==
    /\ failures < MaxCount
    /\ failures' = _inc_failures(failures)
    /\ UNCHANGED <<status, successes, last_call, nonStatusVars>>

NextStatus ==
    \/ \E new \in StatusArgs : SetStatus(new)
    \/ MonIncSuccesses
    \/ MonIncFailures

(***************************************************************************)
(* throttler.py: the pool, the timer and the dequeue decision as values.   *)
(***************************************************************************)
FullRequestsPoolError == "FullRequestsPoolError"
CannotStartStarted == "ThrottlerStatusError: Cannot start an already started throttler."
CannotStartShutdown == "ThrottlerStatusError: Cannot start an already shutdown throttler."
CannotShutdown == "ThrottlerStatusError: Cannot shutdown an already shutdown throttler."
CannotPausePaused == "ThrottlerStatusError: Cannot pause an already paused throttler"
CannotPauseNotRunning == "ThrottlerStatusError: Cannot pause a not running throttler"
CannotUnpause == "ThrottlerStatusError: Cannot unpause not paused throttler"
CannotSubmit == "ThrottlerStatusError: Cannot submit request to throttler"
RuntimeError == "RuntimeError: cannot schedule new futures after shutdown"
PreparationError == "requests.exceptions.RequestException"

\* queue(maxlen=None): the pool has no maximum length
NoMaxlen == -1

\* a test that lets one request too many in: if len(...) > maxlen
pool_full_OffByOne(pool, max) == max # NoMaxlen /\ Len(pool) > max

\* _enqueue_request: if len(self._requests_pool) == self._requests_pool.maxlen
pool_full(pool, max) == max # NoMaxlen /\ Len(pool) = max

\* _enqueue_request: the pool after the call and how the call ended
_enqueue_request(pool, max, r) ==
    IF pool_full(pool, max)
    THEN [pool |-> pool, err |-> FullRequestsPoolError]
    ELSE [pool |-> Append(pool, r), err |-> OK]

\* a dequeue from the wrong end: self._requests_pool.pop()
popleft_Pop(pool) == [pool |-> SubSeq(pool, 1, Len(pool) - 1), item |-> pool[Len(pool)]]

\* a dequeue that leaves the request in the pool: self._requests_pool[0]
popleft_Peek(pool) == [pool |-> pool, item |-> Head(pool)]

\* _dequeue_request: next_request = self._requests_pool.popleft()
popleft(pool) == [pool |-> Tail(pool), item |-> Head(pool)]

\* Timer.elapsed, with a checkpoint set
elapsed(cp, t) == t - cp

\* BaseThrottler._remaining_time
_remaining_time(d, cp, t) == d - elapsed(cp, t)

\* a test that abandons the pool whatever the flag of shutdown
not_wait_enqueued_Always(w) == TRUE

\* _dequeue_condition: if not self._wait_enqueued
not_wait_enqueued(w) == w \in {None, "False"}

(***************************************************************************)
(* Spec: the throttler, its worker thread and the caller threads.          *)
(***************************************************************************)
Worker == "w"
Callers == {"c1", "c2"}
Threads == {Worker} \cup Callers

\* the throttlers built: BaseThrottler() and
\* BaseThrottler(delay=MaxDelay, max_pool_size=MaxPool)
Configs == {[delay |-> 0, max_pool_size |-> NoMaxlen],
            [delay |-> MaxDelay, max_pool_size |-> MaxPool]}

\* time.time() when the throttler is built: Timer(checkpoint=0) lies at least
\* one delay in the past
Epoch == MaxDelay

ReqIds == 1 .. MaxReqs
NoLocals == [req |-> 0]
NoRet3 == [name |-> None, err |-> None, req |-> 0]
\* the value of last_ret in the runs that keep no log of the calls
NoLog == [name |-> "no log", err |-> None, req |-> 0]
\* no call ends in this step
NoReturn == last_ret' = IF last_ret = NoLog THEN NoLog ELSE NoRet3

\* the value of util_call before any call
NoCall == [op |-> None, args |-> <<>>, err |-> None, val |-> None]

InitThrottlerVars ==
    /\ requests_pool = <<>>
    /\ \E cfg \in Configs : maxlen = cfg.max_pool_size /\ delay = cfg.delay
    /\ wait_enqueued = None
    /\ checkpoint = 0
    /\ now = Epoch
    /\ status_lock = NoThread
    /\ not_empty = NoThread
    /\ sl_waiters = <<>>
    /\ ne_waiters = <<>>
    /\ handles = <<>>
    /\ next_request = 0
    /\ w_set = None
    /\ wake = 0
    /\ w_err = None
    /\ executor_queue = 0
    /\ executor_shutdown = FALSE
    /\ cloc = [c \in Callers |-> NoLocals]
    /\ sent = <<>>
    /\ last_send_at = 0
    /\ enq = <<>>
    /\ timer_start = now
    /\ util_call = NoCall

\* where a thread inside Condition.wait() is once it has been notified
Woken(p) == CASE p = "dq_wait" -> "dq_woken"
              [] p = "sp_wait" -> "sp_woken"
              [] p = "we_wait" -> "we_woken"
              [] OTHER -> p

\* the threads' places after thread t moved to p and notified the waiters
PcAfter(t, p, waiters) ==
    [u \in Threads |-> IF u = t THEN p
                       ELSE IF u \in notified(waiters) THEN Woken(pc[u])
                       ELSE pc[u]]

Goto(t, p) == pc' = [pc EXCEPT ![t] = p]

\* an exception leaves _main_loop: the executor keeps it in the future
Raise(t, err) == Goto(t, "crashed") /\ w_err' = err

\* variables no step of the worker's dequeue changes
dqFrame == <<successes, failures, maxlen, delay, wait_enqueued, checkpoint, now,
             status_lock, sl_waiters, handles, wake, executor_shutdown,
             cloc, sent, last_send_at, enq, last_call, handleVars, utilVars>>

\* the executor's thread takes a submitted _main_loop
W_Start ==
    /\ NoReturn
    /\ pc[Worker] \in {"idle", "crashed"}
    /\ executor_queue > 0
    /\ executor_queue' = executor_queue - 1
    /\ Goto(Worker, "dq_enter")
    /\ UNCHANGED <<status, requests_pool, not_empty, ne_waiters, next_request, w_set,
                   w_err, dqFrame>>

\* _dequeue_request: the locked wrapper takes not_empty
W_DqEnter ==
    /\ NoReturn
    /\ pc[Worker] \in {"dq_enter", "dq_woken"}
    /\ lock_free(not_empty)
    /\ not_empty' = Worker
    /\ Goto(Worker, "dc_stopped")
    /\ UNCHANGED <<status, requests_pool, ne_waiters, next_request, w_set,
                   executor_queue, w_err, dqFrame>>

\* _dequeue_condition: if self.status == 'stopped'
W_DcStopped ==
    /\ NoReturn
    /\ pc[Worker] = "dc_stopped"
    /\ lock_free(status_lock)
    /\ Goto(Worker, IF status = "stopped" THEN "dc_set_ending" ELSE "dc_ending")
    /\ UNCHANGED <<status, requests_pool, not_empty, ne_waiters, next_request, w_set,
                   executor_queue, w_err, dqFrame>>

\* _dequeue_condition: self.status = 'ending'; if not self._wait_enqueued: return
W_DcSetEnding ==
    /\ NoReturn
    /\ pc[Worker] = "dc_set_ending"
    /\ lock_free(status_lock)
    /\ LET r == status_setter(status, "ending")
       IN /\ status' = r.status
          /\ IF r.err # OK
             THEN /\ Raise(Worker, r.err)
                  /\ not_empty' = NoThread
             ELSE IF not_wait_enqueued(wait_enqueued)
             THEN /\ Goto(Worker, "end")
                  /\ not_empty' = NoThread
                  /\ UNCHANGED w_err
             ELSE /\ Goto(Worker, "dc_ending")
                  /\ UNCHANGED <<not_empty, w_err>>
    /\ UNCHANGED <<requests_pool, ne_waiters, next_request, w_set, executor_queue,
                   dqFrame>>

\* a decision that ends the loop in status ending whatever is enqueued
W_DcEnding_AnyPool ==
    /\ NoReturn
    /\ pc[Worker] = "dc_ending"
    /\ lock_free(status_lock)
    /\ IF status = "ending"
       THEN /\ Goto(Worker, "end")
            /\ not_empty' = NoThread
       ELSE /\ Goto(Worker, "dc_paused")
            /\ UNCHANGED not_empty
    /\ UNCHANGED <<status, requests_pool, ne_waiters, next_request, w_set,
                   executor_queue, w_err, dqFrame>>

\* _dequeue_condition: if self.status == 'ending': if len(pool) == 0: return
W_DcEnding ==
    /\ NoReturn
    /\ pc[Worker] = "dc_ending"
    /\ lock_free(status_lock)
    /\ IF status = "ending" /\ Len(requests_pool) = 0
       THEN /\ Goto(Worker, "end")
            /\ not_empty' = NoThread
       ELSE /\ Goto(Worker, "dc_paused")
            /\ UNCHANGED not_empty
    /\ UNCHANGED <<status, requests_pool, ne_waiters, next_request, w_set,
                   executor_queue, w_err, dqFrame>>

\* _dequeue_condition: if self.status == 'paused': return True, False
\* and then if len(pool) == 0 ...; a True makes _dequeue_request wait
W_DcPaused ==
    /\ NoReturn
    /\ pc[Worker] = "dc_paused"
    /\ lock_free(status_lock)
    /\ IF status = "paused"
       THEN /\ Goto(Worker, "dq_wait")
            /\ not_empty' = NoThread
            /\ ne_waiters' = Append(ne_waiters, Worker)
       ELSE /\ Goto(Worker, IF Len(requests_pool) = 0 THEN "dc_set_waiting" ELSE "dq_pop")
            /\ UNCHANGED <<not_empty, ne_waiters>>
    /\ UNCHANGED <<status, requests_pool, next_request, w_set, executor_queue, w_err, dqFrame>>

\* _dequeue_condition: self.status = 'waiting'; return True, False
\* and _dequeue_request: self.not_empty.wait()
W_DcSetWaiting ==
    /\ NoReturn
    /\ pc[Worker] = "dc_set_waiting"
    /\ lock_free(status_lock)
    /\ LET r == status_setter(status, "waiting")
       IN /\ status' = r.status
          /\ not_empty' = NoThread
          /\ IF r.err # OK
             THEN /\ Raise(Worker, r.err)
                  /\ UNCHANGED ne_waiters
             ELSE /\ Goto(Worker, "dq_wait")
                  /\ ne_waiters' = Append(ne_waiters, Worker)
                  /\ UNCHANGED w_err
    /\ UNCHANGED <<requests_pool, next_request, w_set, executor_queue, dqFrame>>

\* _dequeue_request: next_request = self._requests_pool.popleft()
W_DqPop ==
    /\ NoReturn
    /\ pc[Worker] = "dq_pop"
    /\ LET r == popleft(requests_pool)
       IN /\ requests_pool' = r.pool
          /\ next_request' = r.item
    /\ Goto(Worker, "dq_restore_read")
    /\ UNCHANGED <<status, not_empty, ne_waiters, w_set, executor_queue, w_err, dqFrame>>

\* _dequeue_request: ... if self.status not in ['stopped', 'ending'] ...
W_DqRestoreRead ==
    /\ NoReturn
    /\ pc[Worker] = "dq_restore_read"
    /\ lock_free(status_lock)
    /\ IF status \notin {"stopped", "ending"}
       THEN /\ w_set' = "running"
            /\ Goto(Worker, "dq_restore_set")
       ELSE /\ Goto(Worker, "dq_restore_read2")
            /\ UNCHANGED w_set
    /\ UNCHANGED <<status, requests_pool, not_empty, ne_waiters, next_request,
                   executor_queue, w_err, dqFrame>>

\* _dequeue_request: ... else self.status
W_DqRestoreRead2 ==
    /\ NoReturn
    /\ pc[Worker] = "dq_restore_read2"
    /\ lock_free(status_lock)
    /\ w_set' = status
    /\ Goto(Worker, "dq_restore_set")
    /\ UNCHANGED <<status, requests_pool, not_empty, ne_waiters, next_request,
                   executor_queue, w_err, dqFrame>>

\* a dequeue that returns without releasing not_empty
W_DqRestoreSet_KeepsLock ==
    /\ NoReturn
    /\ pc[Worker] = "dq_restore_set"
    /\ lock_free(status_lock)
    /\ LET r == status_setter(status, w_set)
       IN /\ status' = r.status
          /\ IF r.err # OK
             THEN Raise(Worker, r.err)
             ELSE Goto(Worker, "sp_enter") /\ UNCHANGED w_err
    /\ w_set' = None
    /\ UNCHANGED <<requests_pool, not_empty, ne_waiters, next_request, executor_queue,
                   dqFrame>>

\* _dequeue_request: self.status = ...; return next_request
W_DqRestoreSet ==
    /\ NoReturn
    /\ pc[Worker] = "dq_restore_set"
    /\ lock_free(status_lock)
    /\ LET r == status_setter(status, w_set)
       IN /\ status' = r.status
          /\ IF r.err # OK
             THEN Raise(Worker, r.err)
             ELSE Goto(Worker, "sp_enter") /\ UNCHANGED w_err
    /\ w_set' = None
    /\ not_empty' = NoThread
    /\ UNCHANGED <<requests_pool, ne_waiters, next_request, executor_queue, dqFrame>>

\* variables no step of the worker outside _dequeue_request changes
loopFrame == <<requests_pool, maxlen, delay, wait_enqueued, not_empty, ne_waiters,
               w_set, executor_queue, executor_shutdown, cloc, enq,
               last_call, handleVars, utilVars>>

\* _sleep_or_pause, entered or resumed with status_lock held: wait while paused;
\* unless stopped, sleep for the remaining time or set the checkpoint at once
W_SleepOrPause ==
    /\ NoReturn
    /\ pc[Worker] \in {"sp_enter", "sp_woken"}
    /\ lock_free(status_lock)
    /\ IF status = "paused"
       THEN /\ sl_waiters' = Append(sl_waiters, Worker)
            /\ Goto(Worker, "sp_wait")
            /\ UNCHANGED <<status_lock, wake, checkpoint>>
       ELSE IF ~(status = "stopped")
       THEN IF _remaining_time(delay, checkpoint, now) > 0
            THEN /\ status_lock' = Worker
                 /\ wake' = now + _remaining_time(delay, checkpoint, now)
                 /\ Goto(Worker, "sp_sleep")
                 /\ UNCHANGED <<sl_waiters, checkpoint>>
            ELSE /\ checkpoint' = now
                 /\ Goto(Worker, "send")
                 /\ UNCHANGED <<status_lock, wake, sl_waiters>>
       ELSE /\ Goto(Worker, "send")
            /\ UNCHANGED <<status_lock, wake, sl_waiters, checkpoint>>
    /\ UNCHANGED <<status, successes, failures, now, handles, next_request, w_err,
                   sent, last_send_at, loopFrame>>

\* a _sleep_or_pause that returns without releasing status_lock
W_SleepEnd_KeepsLock ==
    /\ NoReturn
    /\ pc[Worker] = "sp_sleep"
    /\ now >= wake
    /\ checkpoint' = now
    /\ wake' = 0
    /\ Goto(Worker, "send")
    /\ UNCHANGED <<status, successes, failures, now, status_lock, sl_waiters, handles,
                   next_request, w_err, sent, last_send_at, loopFrame>>

\* _sleep_or_pause: time.sleep returns; self._timer.checkpoint = time.time()
W_SleepEnd ==
    /\ NoReturn
    /\ pc[Worker] = "sp_sleep"
    /\ now >= wake
    /\ checkpoint' = now
    /\ wake' = 0
    /\ status_lock' = NoThread
    /\ Goto(Worker, "send")
    /\ UNCHANGED <<status, successes, failures, now, sl_waiters, handles, next_request,
                   w_err, sent, last_send_at, loopFrame>>

\* _send_request: self._session.send(throttled_request.request) is called
W_Send ==
    /\ NoReturn
    /\ pc[Worker] = "send"
    /\ sent' = Append(sent, next_request)
    /\ last_send_at' = now
    /\ Goto(Worker, "sending")
    /\ UNCHANGED <<status, successes, failures, checkpoint, now, status_lock,
                   sl_waiters, handles, next_request, wake, w_err, loopFrame>>

\* what session.send does: it returns a response or raises
SendResults == {[ok |-> TRUE, val |-> "response1"], [ok |-> FALSE, val |-> "exception"]}

\* _send_request: session.send ended; the handle's setter is called
W_SendDone(res) ==
    /\ NoReturn
    /\ pc[Worker] = "sending"
    /\ LET r == IF res.ok
                THEN response_setter(handles[next_request], res.val)
                ELSE exception_setter(handles[next_request], res.val)
       IN /\ handles' = [handles EXCEPT ![next_request] = r.tr]
          /\ IF r.err # OK
             THEN Raise(Worker, r.err)
             ELSE /\ Goto(Worker, IF res.ok THEN "inc_successes" ELSE "inc_failures")
                  /\ UNCHANGED w_err
    /\ UNCHANGED <<status, successes, failures, checkpoint, now, status_lock,
                   sl_waiters, next_request, wake, sent, last_send_at, loopFrame>>

\* _send_request: self._inc_successes()
W_IncSuccesses ==
    /\ NoReturn
    /\ pc[Worker] = "inc_successes"
    /\ lock_free(status_lock)
    /\ successes' = _inc_successes(successes)
    /\ next_request' = 0
    /\ Goto(Worker, "dq_enter")
    /\ UNCHANGED <<status, failures, checkpoint, now, status_lock, sl_waiters, handles,
                   wake, w_err, sent, last_send_at, loopFrame>>

\* _send_request: self._inc_failures()
W_IncFailures ==
    /\ NoReturn
    /\ pc[Worker] = "inc_failures"
    /\ lock_free(status_lock)
    /\ failures' = _inc_failures(failures)
    /\ next_request' = 0
    /\ Goto(Worker, "dq_enter")
    /\ UNCHANGED <<status, successes, checkpoint, now, status_lock, sl_waiters, handles,
                   wake, w_err, sent, last_send_at, loopFrame>>

\* _end: self._status = 'ended'; self.status_lock.notify()
W_End ==
    /\ NoReturn
    /\ pc[Worker] = "end"
    /\ lock_free(status_lock)
    /\ status' = "ended"
    /\ sl_waiters' = notify(sl_waiters)
    /\ pc' = PcAfter(Worker, "idle", sl_waiters)
    /\ UNCHANGED <<successes, failures, checkpoint, now, status_lock, handles,
                   next_request, wake, w_err, sent, last_send_at, loopFrame>>

\* the clock; no time passes between the end of _sleep_or_pause and the call of
\* session.send (the scheduler's slack is taken as zero), and with a delay of 0
\* the clock is left out: _remaining_time is then never positive; the clock
\* runs MaxTicks ticks and then as far as a time.sleep in progress needs
Tick ==
    /\ NoReturn
    /\ delay > 0
    /\ \/ now < Epoch + MaxTicks
       \/ pc[Worker] = "sp_sleep" /\ now < wake
    /\ pc[Worker] # "send"
    /\ now' = now + 1
    /\ UNCHANGED <<status, successes, failures, checkpoint, status_lock, sl_waiters,
                   handles, pc, next_request, wake, w_err, sent, last_send_at, loopFrame>>

\* a first test of start that forgets the status waiting
start_already_started_NoWaiting(s) == s \in {"running", "paused"}

\* start: if self.status in ['running', 'waiting', 'paused']
start_already_started(s) == s \in {"running", "waiting", "paused"}

\* start: if self.status in ['stopped', 'ending', 'ended']
start_already_shutdown(s) == s \in {"stopped", "ending", "ended"}

\* a test of shutdown that forgets the status ending
shutdown_already_shutdown_NoEnding(s) == s \in {"stopped", "ended"}

\* shutdown: if self.status in ['stopped', 'ending', 'ended']
shutdown_already_shutdown(s) == s \in {"stopped", "ending", "ended"}

\* pause: if self._status == 'paused'
pause_already_paused(s) == s = "paused"

\* a second test of pause that forgets the status waiting
pause_not_running_NoWaiting(s) == s # "running"

\* pause: if self._status not in ['running', 'waiting']
pause_not_running(s) == s \notin {"running", "waiting"}

\* unpause: if self._status != 'paused'
unpause_not_paused(s) == s # "paused"

\* _submit: if self._status not in ['running', 'paused', 'waiting']
submit_refused(s) == s \notin {"running", "paused", "waiting"}

\* variables no step of a caller changes
callerFrame == <<successes, maxlen, delay, checkpoint, now, status_lock, next_request,
                 w_set, wake, w_err, sent, last_send_at, last_call, handleVars,
                 utilVars>>

\* the call name of a caller ends: it returns (OK) or raises err
Return(name, err, req) ==
    last_ret' = IF last_ret = NoLog THEN NoLog
                ELSE [name |-> name, err |-> err, req |-> req]

\* start: if self.status in ['running', 'waiting', 'paused']: raise
C_Start(c) ==
    /\ pc[c] = "idle"
    /\ lock_free(status_lock)
    /\ IF start_already_started(status)
       THEN Return("start", CannotStartStarted, 0) /\ UNCHANGED pc
       ELSE Goto(c, "st_read2") /\ NoReturn
    /\ UNCHANGED <<status, failures, requests_pool, wait_enqueued, not_empty, ne_waiters,
                   sl_waiters, handles, executor_queue, executor_shutdown, cloc, enq,
                   callerFrame>>

\* start: if self.status in ['stopped', 'ending', 'ended']: raise
C_StartRead2(c) ==
    /\ pc[c] = "st_read2"
    /\ lock_free(status_lock)
    /\ IF start_already_shutdown(status)
       THEN Return("start", CannotStartShutdown, 0) /\ Goto(c, "idle")
       ELSE Goto(c, "st_set") /\ NoReturn
    /\ UNCHANGED <<status, failures, requests_pool, wait_enqueued, not_empty, ne_waiters,
                   sl_waiters, handles, executor_queue, executor_shutdown, cloc, enq,
                   callerFrame>>

\* start: self.status = 'running'
C_StartSet(c) ==
    /\ pc[c] = "st_set"
    /\ lock_free(status_lock)
    /\ LET r == status_setter(status, "running")
       IN /\ status' = r.status
          /\ IF r.err # OK
             THEN Return("start", r.err, 0) /\ Goto(c, "idle")
             ELSE Goto(c, "st_submit") /\ NoReturn
    /\ UNCHANGED <<failures, requests_pool, wait_enqueued, not_empty, ne_waiters,
                   sl_waiters, handles, executor_queue, executor_shutdown, cloc, enq,
                   callerFrame>>

\* start: self._executor.submit(self._main_loop)
C_StartSubmit(c) ==
    /\ pc[c] = "st_submit"
    /\ IF executor_shutdown
       THEN Return("start", RuntimeError, 0) /\ UNCHANGED executor_queue
       ELSE Return("start", OK, 0) /\ executor_queue' = executor_queue + 1
    /\ Goto(c, "idle")
    /\ UNCHANGED <<status, failures, requests_pool, wait_enqueued, not_empty, ne_waiters,
                   sl_waiters, handles, executor_shutdown, cloc, enq, callerFrame>>

\* shutdown: the locked wrapper takes not_empty
C_Shutdown(c) ==
    /\ pc[c] = "idle"
    /\ lock_free(not_empty)
    /\ not_empty' = c
    /\ NoReturn
    /\ Goto(c, "sd_read")
    /\ UNCHANGED <<status, failures, requests_pool, wait_enqueued, ne_waiters,
                   sl_waiters, handles, executor_queue, executor_shutdown, cloc, enq,
                   callerFrame>>

\* shutdown: if self.status in ['stopped', 'ending', 'ended']: raise
C_ShutdownRead(c) ==
    /\ pc[c] = "sd_read"
    /\ lock_free(status_lock)
    /\ IF shutdown_already_shutdown(status)
       THEN /\ Return("shutdown", CannotShutdown, 0)
            /\ Goto(c, "idle")
            /\ not_empty' = NoThread
       ELSE /\ Goto(c, "sd_set")
            /\ NoReturn /\ UNCHANGED not_empty
    /\ UNCHANGED <<status, failures, requests_pool, wait_enqueued, ne_waiters,
                   sl_waiters, handles, executor_queue, executor_shutdown, cloc, enq,
                   callerFrame>>

\* shutdown(wait_enqueued=flag): self.status = 'stopped';
\* self._wait_enqueued = wait_enqueued; self.not_empty.notify();
\* self._executor.shutdown(wait=False)
C_ShutdownSet(c, flag) ==
    /\ pc[c] = "sd_set"
    /\ lock_free(status_lock)
    /\ LET r == status_setter(status, "stopped")
       IN /\ status' = r.status
          /\ IF r.err # OK
             THEN /\ Return("shutdown", r.err, 0)
                  /\ Goto(c, "idle")
                  /\ UNCHANGED <<wait_enqueued, ne_waiters, executor_shutdown>>
             ELSE /\ Return("shutdown", OK, 0)
                  /\ wait_enqueued' = flag
                  /\ ne_waiters' = notify(ne_waiters)
                  /\ pc' = PcAfter(c, "idle", ne_waiters)
                  /\ executor_shutdown' = TRUE
    /\ not_empty' = NoThread
    /\ UNCHANGED <<failures, requests_pool, sl_waiters, handles, executor_queue, cloc,
                   enq, callerFrame>>

\* pause, one locked call
C_Pause(c) ==
    /\ pc[c] = "idle"
    /\ lock_free(status_lock)
    /\ IF pause_already_paused(status)
       THEN /\ Return("pause", CannotPausePaused, 0)
            /\ UNCHANGED <<status, sl_waiters, pc>>
       ELSE IF pause_not_running(status)
       THEN /\ Return("pause", CannotPauseNotRunning, 0)
            /\ UNCHANGED <<status, sl_waiters, pc>>
       ELSE /\ Return("pause", OK, 0)
            /\ status' = "paused"
            /\ sl_waiters' = notify(sl_waiters)
            /\ pc' = PcAfter(c, "idle", sl_waiters)
    /\ UNCHANGED <<failures, requests_pool, wait_enqueued, not_empty, ne_waiters,
                   handles, executor_queue, executor_shutdown, cloc, enq, callerFrame>>

\* unpause, one locked call
C_Unpause(c) ==
    /\ pc[c] = "idle"
    /\ lock_free(status_lock)
    /\ IF unpause_not_paused(status)
       THEN /\ Return("unpause", CannotUnpause, 0)
            /\ UNCHANGED <<status, sl_waiters, pc>>
       ELSE /\ Return("unpause", OK, 0)
            /\ status' = "running"
            /\ sl_waiters' = notify(sl_waiters)
            /\ pc' = PcAfter(c, "idle", sl_waiters)
    /\ UNCHANGED <<failures, requests_pool, wait_enqueued, not_empty, ne_waiters,
                   handles, executor_queue, executor_shutdown, cloc, enq, callerFrame>>

\* _submit: the status test (self._status, read without the lock) and
\* _prepare_request, which makes the ThrottledRequest; prepared tells whether
\* request.prepare() succeeds
C_Submit(c, prepared) ==
    /\ pc[c] = "idle"
    /\ Len(handles) < MaxReqs
    /\ IF submit_refused(status)
       THEN /\ Return("submit", CannotSubmit, 0)
            /\ UNCHANGED <<handles, pc, cloc>>
       ELSE /\ cloc' = [cloc EXCEPT ![c] = [req |-> Len(handles) + 1]]
            /\ NoReturn
            /\ IF prepared
               THEN /\ handles' = Append(handles, ThrottledRequest)
                    /\ Goto(c, "sb_enqueue")
               ELSE /\ handles' = Append(handles,
                                 exception_setter(ThrottledRequest, PreparationError).tr)
                    /\ Goto(c, "sb_inc_failures")
    /\ UNCHANGED <<status, failures, requests_pool, wait_enqueued, not_empty, ne_waiters,
                   sl_waiters, executor_queue, executor_shutdown, enq, callerFrame>>

\* _prepare_request: self._inc_failures(); then _submit returns the handle
C_SubmitIncFailures(c) ==
    /\ pc[c] = "sb_inc_failures"
    /\ lock_free(status_lock)
    /\ failures' = _inc_failures(failures)
    /\ Return("submit", OK, cloc[c].req)
    /\ cloc' = [cloc EXCEPT ![c] = NoLocals]
    /\ Goto(c, "idle")
    /\ UNCHANGED <<status, requests_pool, wait_enqueued, not_empty, ne_waiters,
                   sl_waiters, handles, executor_queue, executor_shutdown, enq,
                   callerFrame>>

\* _submit: self._enqueue_request(throttled_request), one locked call
C_SubmitEnqueue(c) ==
    /\ pc[c] = "sb_enqueue"
    /\ lock_free(not_empty)
    /\ LET r == _enqueue_request(requests_pool, maxlen, cloc[c].req)
       IN /\ requests_pool' = r.pool
          /\ IF r.err = OK
             THEN /\ enq' = Append(enq, cloc[c].req)
                  /\ ne_waiters' = notify(ne_waiters)
                  /\ pc' = PcAfter(c, "idle", ne_waiters)
                  /\ Return("submit", OK, cloc[c].req)
                  /\ cloc' = [cloc EXCEPT ![c] = NoLocals]
             ELSE /\ Goto(c, "sb_full")
                  /\ NoReturn /\ UNCHANGED <<enq, ne_waiters, cloc>>
    /\ UNCHANGED <<status, failures, wait_enqueued, not_empty, sl_waiters, handles,
                   executor_queue, executor_shutdown, callerFrame>>

TypeError == "TypeError: object is not callable"

\* _submit: except FullRequestsPoolError as e: throttled_request.exception(e)
\* the expression reads the property exception, that is get_exception(timeout=None),
\* and calls what it returns; get_exception waits while the handle is not finished
C_SubmitFull(c) ==
    /\ pc[c] = "sb_full"
    /\ IF wait_forever(None) /\ ~handles[cloc[c].req].finished
       THEN Goto(c, "sb_getter_wait") /\ NoReturn /\ UNCHANGED cloc
       ELSE /\ Return("submit", TypeError, 0)
            /\ Goto(c, "idle")
            /\ cloc' = [cloc EXCEPT ![c] = NoLocals]
    /\ UNCHANGED <<status, failures, requests_pool, wait_enqueued, not_empty, ne_waiters,
                   sl_waiters, handles, executor_queue, executor_shutdown, enq,
                   callerFrame>>

\* wait_end, entered or resumed with status_lock held:
\* while self._status != 'ended': self.status_lock.wait()
C_WaitEnd(c) ==
    /\ pc[c] \in {"idle", "we_woken"}
    /\ lock_free(status_lock)
    /\ IF status # "ended"
       THEN /\ sl_waiters' = Append(sl_waiters, c)
            /\ Goto(c, "we_wait")
            /\ NoReturn
       ELSE /\ Return("wait_end", OK, 0)
            /\ Goto(c, "idle")
            /\ UNCHANGED sl_waiters
    /\ UNCHANGED <<status, failures, requests_pool, wait_enqueued, not_empty, ne_waiters,
                   handles, executor_queue, executor_shutdown, cloc, enq, callerFrame>>

Next ==
    \/ W_Start
    \/ W_DqEnter
    \/ W_DcStopped
    \/ W_DcSetEnding
    \/ W_DcEnding
    \/ W_DcPaused
    \/ W_DcSetWaiting
    \/ W_DqPop
    \/ W_DqRestoreRead
    \/ W_DqRestoreRead2
    \/ W_DqRestoreSet
    \/ W_SleepOrPause
    \/ W_SleepEnd
    \/ W_Send
    \/ \E res \in SendResults : W_SendDone(res)
    \/ W_IncSuccesses
    \/ W_IncFailures
    \/ W_End
    \/ Tick
    \/ \E c \in Callers : C_Start(c)
    \/ \E c \in Callers : C_StartRead2(c)
    \/ \E c \in Callers : C_StartSet(c)
    \/ \E c \in Callers : C_StartSubmit(c)
    \/ \E c \in Callers : C_Shutdown(c)
    \/ \E c \in Callers : C_ShutdownRead(c)
    \/ \E c \in Callers, flag \in {"True", "False"} : C_ShutdownSet(c, flag)
    \/ \E c \in Callers : C_Pause(c)
    \/ \E c \in Callers : C_Unpause(c)
    \/ \E c \in Callers, prepared \in BOOLEAN : C_Submit(c, prepared)
    \/ \E c \in Callers : C_SubmitIncFailures(c)
    \/ \E c \in Callers : C_SubmitEnqueue(c)
    \/ \E c \in Callers : C_SubmitFull(c)

(***************************************************************************)
(* The specifications.                                                     *)
(***************************************************************************)
\* every thread exists and is outside any call
AllThreads == pc = [t \in Threads |-> "idle"]

\* the throttler's threads, without the log of the calls
Init ==
    InitStatusVars /\ InitHandleVars /\ InitThrottlerVars /\ AllThreads
        /\ last_ret = NoLog

Spec == Init /\ [][Next]_vars

\* the same threads, with the log of the calls
InitCalls ==
    InitStatusVars /\ InitHandleVars /\ InitThrottlerVars /\ AllThreads
        /\ last_ret = NoRet3

SpecCalls == InitCalls /\ [][Next]_vars

\* SpecHandle and SpecStatus leave the throttler as it is built by default
InitDefaultThrottler ==
    InitThrottlerVars /\ AllThreads /\ maxlen = NoMaxlen /\ delay = 0
        /\ last_ret = NoLog

\* one client thread and the worker, with the log of the calls: the client
\* makes its calls one after the other, as tests/test_base_throttler.py does
Client == "c1"

InitClient ==
    /\ InitStatusVars /\ InitHandleVars /\ InitThrottlerVars
    /\ pc = [t \in Threads |-> IF t \in {Worker, Client} THEN "idle" ELSE "absent"]
    /\ last_ret = NoRet3

\* the throttler with callers that also wait for its end
NextEnd ==
    \/ Next
    \/ \E c \in Callers : C_WaitEnd(c)

SpecEnd == Init /\ [][NextEnd]_vars

SpecClient == InitClient /\ [][Next]_vars

\* the steps of the executor's thread, which runs _main_loop
MainLoop ==
    \/ W_Start \/ W_DqEnter \/ W_DcStopped \/ W_DcSetEnding \/ W_DcEnding
    \/ W_DcPaused \/ W_DcSetWaiting \/ W_DqPop \/ W_DqRestoreRead
    \/ W_DqRestoreRead2 \/ W_DqRestoreSet \/ W_SleepOrPause \/ W_SleepEnd
    \/ W_Send \/ (\E res \in SendResults : W_SendDone(res))
    \/ W_IncSuccesses \/ W_IncFailures \/ W_End

\* the steps that carry on a call caller c has begun
CallInProgress(c) ==
    \/ C_StartRead2(c) \/ C_StartSet(c) \/ C_StartSubmit(c)
    \/ C_ShutdownRead(c) \/ (\E flag \in {"True", "False"} : C_ShutdownSet(c, flag))
    \/ C_SubmitIncFailures(c) \/ C_SubmitEnqueue(c) \/ C_SubmitFull(c)

\* one client and the loop under a fair scheduler: the loop's thread runs
\* whenever it can run again and again (it is not starved of a lock), every
\* session.send returns, time passes, and a call that was begun goes on
SpecClientFair ==
    /\ SpecClient
    /\ SF_vars(MainLoop)
    /\ WF_vars(Tick)
    /\ \A c \in Callers : WF_vars(CallInProgress(c))

(***************************************************************************)
(* The throttler as a context manager (SpecWith).                          *)
(***************************************************************************)
\* what __enter__ and __exit__ leave alone besides what start and shutdown do
withFrame == <<status, failures, requests_pool, wait_enqueued, ne_waiters, sl_waiters,
               handles, executor_queue, executor_shutdown, cloc, enq, successes,
               maxlen, delay, checkpoint, now, status_lock, next_request, w_set,
               wake, w_err, sent, last_send_at, last_call, handleVars, timer_start>>

\* __enter__: self.start(), whose first check is made here; return self
C_Enter(c) ==
    /\ util_call = NoCall
    /\ pc[c] = "idle"
    /\ lock_free(status_lock)
    /\ IF start_already_started(status)
       THEN /\ Return("start", CannotStartStarted, 0) /\ UNCHANGED pc
            /\ util_call' = [NoCall EXCEPT !.op = "__enter__",
                                           !.err = CannotStartStarted]
       ELSE /\ Goto(c, "st_read2") /\ NoReturn
            /\ util_call' = [NoCall EXCEPT !.op = "__enter__"]
    /\ UNCHANGED <<not_empty, withFrame>>

\* the body of the with statement is running, or was left
InBlock == util_call.op = "__enter__" /\ util_call.err = None

\* __exit__ that stops the throttler only when the body ended without an error
C_Exit_NormalOnly(c, raised) ==
    /\ InBlock
    /\ pc[c] = "idle"
    /\ lock_free(not_empty)
    /\ not_empty' = IF raised THEN not_empty ELSE c
    /\ NoReturn
    /\ Goto(c, IF raised THEN "idle" ELSE "sd_read")
    /\ util_call' = [NoCall EXCEPT !.op = "__exit__", !.args = <<raised>>]
    /\ UNCHANGED withFrame

\* __exit__(type, value, traceback), called when the body ends or raises:
\* self.shutdown(), whose locked wrapper takes not_empty here; return value
C_Exit(c, raised) ==
    /\ InBlock
    /\ pc[c] = "idle"
    /\ lock_free(not_empty)
    /\ not_empty' = c
    /\ NoReturn
    /\ Goto(c, "sd_read")
    /\ util_call' = [NoCall EXCEPT !.op = "__exit__", !.args = <<raised>>]
    /\ UNCHANGED withFrame

\* with BaseThrottler(...) as bt: any calls of one client, then nothing more
NextWith ==
    \/ MainLoop
    \/ Tick
    \/ C_Enter(Client)
    \/ C_StartRead2(Client)
    \/ C_StartSet(Client)
    \/ C_StartSubmit(Client)
    \/ InBlock /\ C_Start(Client)
    \/ InBlock /\ C_Shutdown(Client)
    \/ C_ShutdownRead(Client)
    \/ \E flag \in {"True", "False"} :
          /\ util_call.op = "__exit__" => flag = "True"
          /\ C_ShutdownSet(Client, flag)
    \/ InBlock /\ C_Pause(Client)
    \/ InBlock /\ C_Unpause(Client)
    \/ \E prepared \in BOOLEAN : InBlock /\ C_Submit(Client, prepared)
    \/ C_SubmitIncFailures(Client)
    \/ C_SubmitEnqueue(Client)
    \/ C_SubmitFull(Client)
    \/ \E raised \in BOOLEAN : C_Exit(Client, raised)

SpecWith == InitClient /\ [][NextWith]_vars

InitHandle == InitHandleVars /\ InitStatusVars /\ InitDefaultThrottler

SpecHandle == InitHandle /\ [][NextHandle]_vars

InitStatus == InitStatusVars /\ InitHandleVars /\ InitDefaultThrottler

SpecStatus == InitStatus /\ [][NextStatus]_vars

(***************************************************************************)
(* utils.py: Timer, and BaseThrottler._get_delay (SpecTimer, SpecDelay).               *)
(***************************************************************************)
MaxTime == 3
MaxArg == 2

\* a checkpoint, a start or a new_checkpoint argument that is None
NoCheckpoint == -1

NoCheckpointSetError == "NoCheckpointSetError: No checkpoint has been set."
ValueError == "ValueError"
ZeroDivisionError == "ZeroDivisionError: float division by zero"

\* a test that takes the checkpoint 0 for no checkpoint: if not self._checkpoint
no_checkpoint_Falsy(cp) == cp \in {NoCheckpoint, 0}

\* Timer.elapsed, get_elapsed_and_set_checkpoint: if self._checkpoint is None
no_checkpoint(cp) == cp = NoCheckpoint

\* an assignment that takes the new checkpoint 0 for none given:
\* new_checkpoint or now
new_checkpoint_value_Falsy(new_checkpoint, t) ==
    IF new_checkpoint \in {NoCheckpoint, 0} THEN t ELSE new_checkpoint

\* get_elapsed_and_set_checkpoint: now if new_checkpoint is None else new_checkpoint
new_checkpoint_value(new_checkpoint, t) ==
    IF new_checkpoint = NoCheckpoint THEN t ELSE new_checkpoint

\* the quotient n / d of two numbers, kept exact
Fraction(n, d) == [num |-> n, den |-> d]

\* BaseThrottler._get_delay; an argument that is None is <<>>, a delay d is <<d>>
\* and reqs_over_time is <<n_reqs, time_for_reqs>>
_get_delay(d, reqs_over_time) ==
    LET \* if delay < 0: raise ValueError; return delay
        checked(q) == IF q.num * q.den < 0
                      THEN [err |-> ValueError, val |-> Fraction(0, 1)]
                      ELSE [err |-> OK, val |-> q]
    IN IF d = <<>>
       THEN IF reqs_over_time = <<>>
            THEN [err |-> OK, val |-> Fraction(0, 1)]
            ELSE LET n_reqs == reqs_over_time[1]
                     time_for_reqs == reqs_over_time[2]
                 IN IF n_reqs < 0 \/ time_for_reqs < 0
                    THEN [err |-> ValueError, val |-> Fraction(0, 1)]
                    ELSE IF n_reqs = 0
                    THEN [err |-> ZeroDivisionError, val |-> Fraction(0, 1)]
                    ELSE checked(Fraction(time_for_reqs, n_reqs))
       ELSE checked(Fraction(d[1], 1))

\* variables no step of SpecTimer or SpecDelay changes
utilFrame == <<statusVars, handleVars, requests_pool, maxlen, delay, wait_enqueued,
               status_lock, not_empty, sl_waiters, ne_waiters, handles, pc,
               next_request, w_set, wake, w_err, executor_queue, executor_shutdown,
               cloc, last_ret, sent, last_send_at, enq>>

\* Timer(start=s, checkpoint=c)
T_Init(s, c) ==
    /\ timer_start' = IF s = NoCheckpoint THEN now ELSE s
    /\ checkpoint' = c
    /\ util_call' = [op |-> "Timer", args |-> <<s, c>>, err |-> OK, val |-> 0]
    /\ UNCHANGED <<now, utilFrame>>

\* timer.checkpoint = c
T_SetCheckpoint(c) ==
    /\ checkpoint' = c
    /\ util_call' = [op |-> "checkpoint", args |-> <<c>>, err |-> OK, val |-> 0]
    /\ UNCHANGED <<now, timer_start, utilFrame>>

\* Timer.total_elapsed
T_TotalElapsed ==
    /\ util_call' = [op |-> "total_elapsed", args |-> <<>>,
                     err |-> OK, val |-> now - timer_start]
    /\ UNCHANGED <<now, timer_start, checkpoint, utilFrame>>

\* Timer.elapsed
T_Elapsed ==
    /\ IF no_checkpoint(checkpoint)
       THEN util_call' = [op |-> "elapsed", args |-> <<>>,
                          err |-> NoCheckpointSetError, val |-> 0]
       ELSE util_call' = [op |-> "elapsed", args |-> <<>>,
                          err |-> OK, val |-> elapsed(checkpoint, now)]
    /\ UNCHANGED <<now, timer_start, checkpoint, utilFrame>>

\* Timer.get_elapsed_and_set_checkpoint(change, new_checkpoint)
T_GetElapsedAndSetCheckpoint(change, new_checkpoint) ==
    /\ IF no_checkpoint(checkpoint)
       THEN /\ util_call' = [op |-> "get_elapsed_and_set_checkpoint",
                             args |-> <<change, new_checkpoint>>,
                             err |-> NoCheckpointSetError, val |-> 0]
            /\ UNCHANGED checkpoint
       ELSE /\ util_call' = [op |-> "get_elapsed_and_set_checkpoint",
                             args |-> <<change, new_checkpoint>>,
                             err |-> OK, val |-> now - checkpoint]
            /\ checkpoint' = IF change THEN new_checkpoint_value(new_checkpoint, now)
                             ELSE checkpoint
    /\ UNCHANGED <<now, timer_start, utilFrame>>

\* time.time() grows
T_Tick ==
    /\ now < MaxTime
    /\ now' = now + 1
    /\ util_call' = NoCall
    /\ UNCHANGED <<timer_start, checkpoint, utilFrame>>

\* BaseThrottler(delay=d, reqs_over_time=r): self._get_delay(d, r)
GetDelay(d, r) ==
    /\ LET res == _get_delay(d, r)
       IN util_call' = [op |-> "_get_delay", args |-> <<d, r>>,
                        err |-> res.err, val |-> res.val]
    /\ UNCHANGED <<now, timer_start, checkpoint, utilFrame>>

NextTimer ==
    \/ \E s, c \in {NoCheckpoint} \cup (0 .. MaxTime) : T_Init(s, c)
    \/ \E c \in {NoCheckpoint} \cup (0 .. MaxTime) : T_SetCheckpoint(c)
    \/ T_TotalElapsed
    \/ T_Elapsed
    \/ \E change \in BOOLEAN, c \in {NoCheckpoint} \cup (0 .. MaxTime) :
          T_GetElapsedAndSetCheckpoint(change, c)
    \/ T_Tick

NextDelay ==
    \E d \in {<<>>} \cup {<<x>> : x \in (0 - MaxArg) .. MaxArg},
       r \in {<<>>} \cup (((0 - MaxArg) .. MaxArg) \X ((0 - MaxArg) .. MaxArg)) :
       GetDelay(d, r)

InitUtil == InitStatusVars /\ InitHandleVars /\ InitDefaultThrottler

SpecTimer == InitUtil /\ [][NextTimer]_vars

SpecDelay == InitUtil /\ [][NextDelay]_vars

(***************************************************************************)
(* The status setter (SpecStatus).                                         *)
(***************************************************************************)
\* the adjacency table of the design: the legal targets of each status
AdjacencyTable ==
    [s \in {"initialized", "running", "waiting", "paused", "stopped", "ending"} |->
        IF s = "initialized" THEN {"initialized", "running", "stopped"}
        ELSE IF s = "running" THEN {"running", "waiting", "paused", "stopped"}
        ELSE IF s = "waiting" THEN {"waiting", "running", "paused", "stopped"}
        ELSE IF s = "paused" THEN {"paused", "running", "waiting", "stopped"}
        ELSE IF s = "stopped" THEN {"stopped", "ending"}
        ELSE {"ending", "ended"}]

\* C9: from each of the six statuses initialized .. ending, a set to one of the
\* seven statuses succeeds, and the status read right after is the new one,
\* exactly when the pair is in the adjacency table; otherwise it fails with the
\* transition error and the status is unchanged. A set to a value that is none
\* of the seven statuses fails with the invalid-status error and leaves the
\* status unchanged.
C9_SetterFollowsTable ==
    /\ (last_call.from \in DOMAIN AdjacencyTable /\ last_call.to \in THROTTLER_STATUS) =>
          IF last_call.to \in AdjacencyTable[last_call.from]
          THEN last_call.err = OK /\ status = last_call.to
          ELSE last_call.err = InvalidTransitionError /\ status = last_call.from
    /\ (last_call.from # None /\ last_call.to \notin THROTTLER_STATUS) =>
          last_call.err = InvalidStatusError /\ status = last_call.from

\* a set from paused to waiting succeeded and the status is waiting
C9_Witness ==
    /\ last_call = [from |-> "paused", to |-> "waiting", err |-> OK]
    /\ status = "waiting"

\* C10: from ended, a set to any of the seven statuses (ended included) fails
\* with the transition error, the error of every transition outside the table,
\* and the status stays ended.
C10_EndedIsTerminal ==
    (last_call.from = "ended" /\ last_call.to \in THROTTLER_STATUS) =>
        last_call.err = InvalidTransitionError /\ status = "ended"

(***************************************************************************)
(* The completion handle (SpecHandle).                                     *)
(***************************************************************************)
\* the setter calls of thread t that have ended
SetterEnded(t) == hpc[t] = "idle" /\ hret[t].kind # None

\* C5: a handle is finished at most once. A setter that finds the handle
\* finished fails with ThrottledRequestAlreadyFinished and leaves finished,
\* response and exception as they are; no setter fails otherwise; of the setter
\* calls of two threads, concurrent or not, exactly one succeeds.
C5_FinishedAtMostOnce ==
    /\ [](/\ n_set_ok <= 1
          /\ n_set_ok = (IF tr.finished THEN 1 ELSE 0)
          /\ \A t \in Setters : hpc[t] = "write" => ~tr.finished
          /\ \A t \in Setters :
                (SetterEnded(t) /\ hret[t].kind = "raise") =>
                    hret[t].val = ThrottledRequestAlreadyFinished /\ tr.finished
          /\ (\A t \in Setters : SetterEnded(t)) => n_set_ok = 1)
    /\ [][\A t \in Setters :
            (hpc[t] = "locked" /\ hpc'[t] # "locked") =>
                IF tr.finished
                THEN /\ hpc'[t] = "idle"
                     /\ hret'[t].kind = "raise"
                     /\ hret'[t].val = ThrottledRequestAlreadyFinished
                     /\ tr' = tr
                ELSE hpc'[t] = "write"]_vars

\* both setter threads made a call: the first returned, the second was refused
C5_Witness ==
    /\ \A t \in Setters : SetterEnded(t)
    /\ \E t, u \in Setters :
          /\ hret[t].kind = "return"
          /\ hret[u] = [kind |-> "raise", val |-> ThrottledRequestAlreadyFinished,
                        fin |-> TRUE]

\* C6: while finished is false, response and exception are both unset; once
\* finished is true exactly one of them is set, and finished, response and
\* exception never change again.
C6_HandleInvariant ==
    /\ [](/\ ~tr.finished => (tr.response = None /\ tr.exception = None)
          /\ tr.finished => ((tr.response = None) # (tr.exception = None)))
    /\ [][tr.finished => tr' = tr]_vars

\* a handle finished with a response, and a later setter call refused
C6_Witness ==
    /\ tr.finished
    /\ tr.response \in Responses
    /\ tr.exception = None
    /\ \E t \in Setters : SetterEnded(t) /\ hret[t].kind = "raise"
                          /\ hop[t].name = "exception"

\* the reader calls of thread t that have ended
ReaderEnded(t) == hpc[t] = "idle" /\ hret[t].kind # None

\* C7: get_response(timeout=0) on an unfinished handle returns None and never
\* blocks; get_response() without timeout returns only once the handle is
\* finished; a get_response that ends on a finished handle returns the stored
\* response, or raises the stored exception if one was set; get_exception never
\* raises: it returns the stored exception, or None when the handle is
\* unfinished at the timeout or was finished with a response.
C7_Readers ==
    \A t \in Readers :
        /\ hop[t].arg # None => hpc[t] # "wait"
        /\ (ReaderEnded(t) /\ hop[t].name = "get_response") =>
              /\ hop[t].arg = None => hret[t].fin
              /\ ~hret[t].fin => (hret[t].kind = "return" /\ hret[t].val = None)
              /\ (hret[t].fin /\ tr.exception = None) =>
                    (hret[t].kind = "return" /\ hret[t].val = tr.response)
              /\ (hret[t].fin /\ tr.exception # None) =>
                    (hret[t].kind = "raise" /\ hret[t].val = tr.exception)
        /\ (ReaderEnded(t) /\ hop[t].name = "get_exception") =>
              /\ hret[t].kind = "return"
              /\ hop[t].arg = None => hret[t].fin
              /\ hret[t].val = (IF hret[t].fin THEN tr.exception ELSE None)

\* one reader got None from get_response(timeout=0) while the handle was
\* unfinished; the other waited without timeout and got the exception raised
C7_Witness ==
    /\ hop["r1"] = [name |-> "get_response", arg |-> "0"]
    /\ hret["r1"] = [kind |-> "return", val |-> None, fin |-> FALSE]
    /\ hpc["r1"] = "idle"
    /\ hop["r2"] = [name |-> "get_response", arg |-> None]
    /\ hret["r2"] = [kind |-> "raise", val |-> "exception", fin |-> TRUE]
    /\ hpc["r2"] = "idle"

\* C8: finishing a handle wakes all the waiters: once a setter has succeeded no
\* reader is left inside not_done.wait() without timeout (a reader left there
\* is woken by no later step: a setter notifies only when it succeeds, and only
\* one setter call ever does), so every such reader returns.
C8_AllWaitersWoken ==
    tr.finished => \A t \in Readers : hpc[t] # "wait"

(***************************************************************************)
(* The throttler (Spec).                                                   *)
(***************************************************************************)
\* C1: requests are sent in the order of their successful enqueues: of two
\* enqueued requests the one enqueued first has its send started first, so the
\* requests handed to session.send are always a prefix of the enqueued ones.
C1_Fifo ==
    /\ Len(sent) <= Len(enq)
    /\ \A i \in 1 .. Len(sent) : sent[i] = enq[i]

\* two requests were enqueued and both have been handed to session.send, the
\* second of them just now
C1_Witness ==
    /\ Len(sent) >= 2
    /\ Len(enq) = Len(sent)
    /\ requests_pool = <<>>
    /\ pc[Worker] = "sending"

\* C2: for every delay, the time between the start of one send and the start of
\* the next is at least the delay.
C2_MinSpacing ==
    [][(Len(sent) > 0 /\ Len(sent') > Len(sent)) => now' - last_send_at >= delay]_vars

\* C3: a pool with a maximum length never holds more requests than that; an
\* enqueue on a pool that is not full succeeds and appends at the tail, an
\* enqueue on a full pool fails with FullRequestsPoolError and leaves the pool
\* as it is; without a maximum length no enqueue fails.
C3_BoundedPool ==
    /\ [](maxlen # NoMaxlen => Len(requests_pool) <= maxlen)
    /\ [][\A c \in Callers :
            (pc[c] = "sb_enqueue" /\ pc'[c] # "sb_enqueue") =>
                IF maxlen # NoMaxlen /\ Len(requests_pool) >= maxlen
                THEN pc'[c] = "sb_full" /\ requests_pool' = requests_pool
                ELSE /\ pc'[c] = "idle"
                     /\ requests_pool' = requests_pool \o <<cloc[c].req>>]_vars

\* the pool is full and the enqueue of one more request has just been refused
C3_Witness ==
    /\ maxlen # NoMaxlen
    /\ Len(requests_pool) = maxlen
    /\ \E c \in Callers : pc[c] = "sb_full" /\ cloc[c].req \notin
                              {requests_pool[i] : i \in 1 .. Len(requests_pool)}

\* C4: a submit that finds the pool full returns the handle without blocking:
\* the handle is finished with the FullRequestsPoolError as its exception, the
\* failures counter is one higher and the pool is unchanged.
C4_SubmitOnFullPool ==
    [][\A c \in Callers :
          (pc[c] = "sb_full" /\ pc'[c] # "sb_full") =>
              /\ pc'[c] = "idle"
              /\ handles'[cloc[c].req].finished
              /\ handles'[cloc[c].req].exception = FullRequestsPoolError
              /\ handles'[cloc[c].req].response = None
              /\ failures' = failures + 1
              /\ requests_pool' = requests_pool]_vars

(***************************************************************************)
(* The public operations, called one after the other (SpecClient).         *)
(***************************************************************************)
\* where a caller is while it is inside _submit
SubmitPcs == {"sb_enqueue", "sb_inc_failures", "sb_full", "sb_getter_wait"}

\* the statuses in which the throttler takes requests
ActiveStatuses == {"running", "waiting", "paused"}

\* C11: submit fails with the status error whenever the status is initialized,
\* stopped, ending or ended, and then no handle is created and the pool and both
\* counters are unchanged; when the status is running, waiting or paused, submit
\* returns the handle of the request.
C11_SubmitByStatus ==
    [][\A c \in Callers :
        /\ (pc[c] = "idle" /\ last_ret'.name = "submit") =>
              /\ status \notin ActiveStatuses
              /\ last_ret' = [name |-> "submit", err |-> CannotSubmit, req |-> 0]
              /\ handles' = handles
              /\ requests_pool' = requests_pool
              /\ successes' = successes /\ failures' = failures
        /\ (pc[c] = "idle" /\ pc'[c] \in SubmitPcs) =>
              /\ status \in ActiveStatuses
              /\ Len(handles') = Len(handles) + 1
        /\ (pc[c] \in SubmitPcs /\ pc'[c] \notin SubmitPcs) =>
              /\ pc'[c] = "idle"
              /\ last_ret' = [name |-> "submit", err |-> OK, req |-> cloc[c].req]
        /\ pc'[c] # "sb_getter_wait"]_vars

\* C12: when the preparation of the request fails, the handle submit returns is
\* already finished with the preparation's exception and no response, failures
\* is one higher, nothing is enqueued and nothing is raised to the caller; when
\* the preparation succeeds the new handle is unfinished, with neither response
\* nor exception.
C12_PreparationFailure ==
    /\ [](\A c \in Callers :
            pc[c] = "sb_inc_failures" =>
                /\ handles[cloc[c].req] = [finished |-> TRUE, response |-> None,
                                           exception |-> PreparationError]
                /\ \A i \in 1 .. Len(enq) : enq[i] # cloc[c].req)
    /\ [][\A c \in Callers :
            /\ (pc[c] = "idle" /\ pc'[c] = "sb_inc_failures") =>
                  /\ requests_pool' = requests_pool /\ enq' = enq
                  /\ failures' = failures
            /\ (pc[c] = "sb_inc_failures" /\ pc'[c] # pc[c]) =>
                  /\ pc'[c] = "idle"
                  /\ last_ret' = [name |-> "submit", err |-> OK, req |-> cloc[c].req]
                  /\ failures' = failures + 1
                  /\ successes' = successes
                  /\ requests_pool' = requests_pool /\ enq' = enq
                  /\ handles' = handles
            /\ (pc[c] = "idle" /\ pc'[c] = "sb_enqueue") =>
                  handles'[cloc'[c].req] = [finished |-> FALSE, response |-> None,
                                            exception |-> None]]_vars

\* a submit whose preparation failed has just returned its finished handle, and
\* failures counts it
C12_Witness ==
    /\ last_ret.name = "submit" /\ last_ret.err = OK
    /\ handles[last_ret.req].exception = PreparationError
    /\ handles[last_ret.req].finished
    /\ failures >= 1
    /\ \A i \in 1 .. Len(enq) : enq[i] # last_ret.req

\* the statuses of a throttler that has been shut down
DownStatuses == {"stopped", "ending", "ended"}

\* C13: start fails with the status error for every status other than
\* initialized, leaving the status unchanged and spawning no loop; from
\* initialized it sets the status running and spawns the loop.
C13_Start ==
    /\ [](\A c \in Callers :
            /\ pc[c] = "st_set" => status = "initialized"
            /\ pc[c] = "st_submit" => status = "running" /\ executor_queue = 0)
    /\ [][\A c \in Callers :
            /\ (pc[c] = "idle" /\ status = "initialized") =>
                  last_ret'.name # "start"
            /\ (pc[c] = "st_read2" /\ status = "initialized") =>
                  last_ret'.name # "start"
            /\ (last_ret'.name = "start" /\ last_ret'.err # OK) =>
                  /\ status # "initialized"
                  /\ last_ret'.err \in {CannotStartStarted, CannotStartShutdown}
                  /\ status' = status
                  /\ executor_queue' = executor_queue
                  /\ pc'[Worker] = pc[Worker]
            /\ (last_ret'.name = "start" /\ last_ret'.err = OK) =>
                  /\ status' = "running"
                  /\ executor_queue' = executor_queue + 1]_vars

\* start has just been refused on a throttler whose loop waits for a request
C13_Witness ==
    /\ last_ret = [name |-> "start", err |-> CannotStartStarted, req |-> 0]
    /\ status = "waiting"
    /\ pc[Worker] = "dq_wait"

\* C14: pause succeeds exactly when the status is running or waiting and sets
\* it to paused; unpause succeeds exactly when the status is paused and sets it
\* to running; otherwise they fail with the status error and leave the status
\* unchanged.
C14_PauseUnpause ==
    [][/\ last_ret'.name = "pause" =>
            IF status \in {"running", "waiting"}
            THEN last_ret'.err = OK /\ status' = "paused"
            ELSE /\ last_ret'.err \in {CannotPausePaused, CannotPauseNotRunning}
                 /\ status' = status
       /\ last_ret'.name = "unpause" =>
            IF status = "paused"
            THEN last_ret'.err = OK /\ status' = "running"
            ELSE last_ret'.err = CannotUnpause /\ status' = status]_vars

\* pause has just succeeded while the loop was waiting for a request
C14_Witness ==
    /\ last_ret = [name |-> "pause", err |-> OK, req |-> 0]
    /\ status = "paused"
    /\ pc[Worker] = "dq_woken"

\* C15: shutdown fails with the status error when the status is stopped,
\* ending or ended and leaves the status and the recorded flag unchanged; from
\* initialized, running, waiting or paused it records the flag and sets the
\* status to stopped.
C15_Shutdown ==
    /\ [](\A c \in Callers : pc[c] = "sd_set" => status \notin DownStatuses)
    /\ [][\A c \in Callers :
            /\ (pc[c] = "sd_read" /\ pc'[c] # "sd_read") =>
                  IF status \in DownStatuses
                  THEN /\ last_ret' = [name |-> "shutdown", err |-> CannotShutdown,
                                       req |-> 0]
                       /\ status' = status
                       /\ wait_enqueued' = wait_enqueued
                       /\ executor_shutdown' = executor_shutdown
                  ELSE pc'[c] = "sd_set" /\ last_ret'.name # "shutdown"
            /\ (pc[c] = "sd_set" /\ pc'[c] # "sd_set") =>
                  /\ last_ret' = [name |-> "shutdown", err |-> OK, req |-> 0]
                  /\ status' = "stopped"
                  /\ wait_enqueued' \in {"True", "False"}]_vars

\* a second shutdown has just been refused, and the flag of the first is kept
C15_Witness ==
    /\ last_ret = [name |-> "shutdown", err |-> CannotShutdown, req |-> 0]
    /\ status \in DownStatuses
    /\ wait_enqueued = "False"

\* every handle made so far is finished
AllFinished == \A i \in 1 .. Len(handles) : handles[i].finished

\* C18: when requests were submitted to a throttler with an unbounded pool, it
\* was shut down with wait_enqueued=True and the status has reached ended, every
\* handle is finished, successes + failures is the number of requests, and no
\* request was sent more than once.
C18_DrainOnShutdown ==
    (status = "ended" /\ wait_enqueued = "True" /\ maxlen = NoMaxlen) =>
        /\ AllFinished
        /\ requests_pool = <<>>
        /\ successes + failures = Len(handles)
        /\ \A i, j \in 1 .. Len(sent) : sent[i] = sent[j] => i = j

\* the throttler has ended after a draining shutdown with MaxReqs requests,
\* all of them sent
C18_Witness ==
    /\ status = "ended" /\ wait_enqueued = "True" /\ maxlen = NoMaxlen
    /\ Len(handles) = MaxReqs
    /\ Len(sent) = MaxReqs

(***************************************************************************)
(* The end of the loop (SpecClientFair).                                   *)
(***************************************************************************)
\* start has succeeded: the loop is queued in the executor or runs
Started == executor_queue > 0 \/ pc[Worker] # "idle"

\* C16: after shutdown has succeeded on a started throttler, wherever the loop
\* was (waiting on the empty pool, paused, sleeping, sending), the status
\* becomes ended, and it gets there through stopped, ending, ended.
C16_ShutdownEnds ==
    /\ (status = "stopped" /\ Started) ~> (status = "ended")
    /\ [][(status \in DownStatuses /\ status' # status) =>
              \/ status = "stopped" /\ status' = "ending"
              \/ status = "ending" /\ status' = "ended"]_vars

\* C17: wait_end returns only when the status is ended, and once the status is
\* ended no thread stays blocked in wait_end, two or more waiters included:
\* after _end nothing notifies status_lock again, so a waiter that _end did not
\* wake would wait for ever.
C17_WaitEnd ==
    /\ [](status = "ended" => \A c \in Callers : pc[c] # "we_wait")
    /\ [][\A c \in Callers :
            (pc[c] = "we_woken" /\ pc'[c] = "idle") => status = "ended"]_vars

\* every request that was enqueued is finished
AllEnqueuedFinished == \A i \in 1 .. Len(enq) : handles[enq[i]].finished

\* C19: requests submitted to a paused throttler are enqueued in order and, once
\* unpause has set the status back to running, all of them get finished without
\* any later submit or shutdown: the loop never stays blocked waiting for a
\* request while the status is running or waiting and the pool holds one.
C19_PauseThenUnpause ==
    /\ [][\A c \in Callers :
            (status = "paused" /\ pc[c] = "sb_enqueue" /\ pc'[c] = "idle") =>
                requests_pool' = Append(requests_pool, cloc[c].req)]_vars
    /\ [](~(/\ pc[Worker] = "dq_wait"
            /\ requests_pool # <<>>
            /\ status \in {"running", "waiting"}))
    /\ (status = "running" /\ last_ret.name = "unpause" /\ last_ret.err = OK)
           ~> (AllEnqueuedFinished \/ status \notin {"running", "waiting"})

\* shutdown(wait_enqueued=False) has succeeded
Aborted == status \in DownStatuses /\ wait_enqueued = "False"

\* C20: after shutdown(wait_enqueued=False) the requests that are in the pool
\* when the status becomes stopped are never sent: they stay in the pool, their
\* handles stay unfinished and the counters do not count them; the loop
\* terminates and the status reaches ended.
C20_AbortOnShutdown ==
    /\ [][Aborted => requests_pool' = requests_pool]_vars
    /\ [](Aborted =>
            /\ \A i \in 1 .. Len(requests_pool) :
                  /\ ~handles[requests_pool[i]].finished
                  /\ \A j \in 1 .. Len(sent) : sent[j] # requests_pool[i]
            /\ status = "ended" =>
                  successes + failures + Len(requests_pool) = Len(handles))
    /\ (Aborted /\ Started) ~> (status = "ended")

(***************************************************************************)
(* The monitors.                                                           *)
(***************************************************************************)
\* C21: no thread holds more than one monitor at a time: no thread owns both
\* status_lock and not_empty, and a thread that owns not_empty takes no step
\* that writes the status or a counter, which is done under status_lock.
C21_OneMonitor ==
    /\ [](\A t \in Threads : ~(status_lock = t /\ not_empty = t))
    /\ [][\A t \in Threads :
            (not_empty = t /\ pc'[t] # pc[t]) =>
                /\ status' = status
                /\ successes' = successes
                /\ failures' = failures]_vars

(***************************************************************************)
(* The delay of a new throttler and the Timer (SpecTimer, SpecDelay).                  *)
(***************************************************************************)
\* C23: construction takes the given delay when one is given, whatever
\* reqs_over_time is, else time / count when reqs_over_time = (count, time) is
\* given, else 0; it fails with ValueError whenever the given delay is negative
\* or the derived one is invalid (count = 0, or a negative quotient).
C23_Delay ==
    util_call.op = "_get_delay" =>
        LET d == util_call.args[1]
            r == util_call.args[2]
        IN IF d # <<>>
           THEN IF d[1] < 0
                THEN util_call.err = ValueError
                ELSE util_call.err = OK /\ util_call.val = Fraction(d[1], 1)
           ELSE IF r = <<>>
           THEN util_call.err = OK /\ util_call.val = Fraction(0, 1)
           ELSE /\ (r[1] = 0 \/ r[1] * r[2] < 0) => util_call.err = ValueError
                /\ (r[1] > 0 /\ r[2] >= 0) =>
                      util_call.err = OK /\ util_call.val = Fraction(r[2], r[1])

\* C24: elapsed and get_elapsed_and_set_checkpoint fail with
\* NoCheckpointSetError whenever no checkpoint is set, and leave start and
\* checkpoint unchanged; with a checkpoint set, elapsed returns now minus the
\* checkpoint and does not change it.
C24_NoCheckpoint ==
    [][/\ (/\ util_call'.op \in {"elapsed", "get_elapsed_and_set_checkpoint"}
           /\ checkpoint = NoCheckpoint) =>
              /\ util_call'.err = NoCheckpointSetError
              /\ timer_start' = timer_start
              /\ checkpoint' = checkpoint
       /\ (util_call'.op = "elapsed" /\ checkpoint # NoCheckpoint) =>
              /\ util_call'.err = OK
              /\ util_call'.val = now - checkpoint
              /\ checkpoint' = checkpoint]_vars

\* elapsed has just failed on a timer without checkpoint, after time has passed
C24_Witness ==
    /\ util_call.op = "elapsed"
    /\ util_call.err = NoCheckpointSetError
    /\ checkpoint = NoCheckpoint
    /\ now > timer_start

\* C25: with a checkpoint set, get_elapsed_and_set_checkpoint(change,
\* new_checkpoint) returns now minus the old checkpoint; with change false the
\* checkpoint is unchanged, with change true it becomes new_checkpoint when one
\* is given and the current time otherwise; no operation of a Timer changes its
\* start.
C25_SetCheckpoint ==
    /\ [][(/\ util_call'.op = "get_elapsed_and_set_checkpoint"
           /\ checkpoint # NoCheckpoint) =>
              /\ util_call'.err = OK
              /\ util_call'.val = now - checkpoint
              /\ checkpoint' = IF ~util_call'.args[1] THEN checkpoint
                               ELSE IF util_call'.args[2] = NoCheckpoint THEN now
                               ELSE util_call'.args[2]]_vars
    /\ [][util_call'.op # "Timer" => timer_start' = timer_start]_vars

\* get_elapsed_and_set_checkpoint(True, 0) has just returned a positive elapsed
\* time and set the checkpoint to the instant 0 it was given
C25_Witness ==
    /\ util_call.op = "get_elapsed_and_set_checkpoint"
    /\ util_call.args = <<TRUE, 0>>
    /\ util_call.err = OK
    /\ util_call.val > 0
    /\ checkpoint = 0
    /\ now > 0

\* C22: entering the managed block begins start(), whose assignment makes the
\* status running, and the body never runs on an unstarted throttler; the
\* block is left, with or without an error of the body, only through
\* __exit__, which calls shutdown(); once __exit__ has returned or raised,
\* the status is one of stopped, ending, ended.
C22_ScopedUse ==
    /\ []((InBlock /\ pc[Client] = "idle") => status # "initialized")
    /\ []((util_call.op = "__exit__" /\ pc[Client] = "idle") => status \in DownStatuses)
    /\ [][/\ (util_call.op = None /\ util_call'.op # None) =>
                 util_call'.op = "__enter__" /\ pc'[Client] = "st_read2"
          /\ (pc[Client] = "st_set" /\ pc'[Client] # "st_set") => status' = "running"
          /\ (InBlock /\ ~InBlock') =>
                 util_call'.op = "__exit__" /\ pc'[Client] = "sd_read"]_vars

\* the body raised, __exit__ has run and its shutdown() stopped the throttler
\* while requests were still enqueued
C22_Witness ==
    /\ util_call.op = "__exit__"
    /\ util_call.args = <<TRUE>>
    /\ pc[Client] = "idle"
    /\ status = "stopped"
    /\ requests_pool # <<>>

\* the places of the worker inside _dequeue_condition
DcPcs == {"dc_stopped", "dc_set_ending", "dc_ending", "dc_paused", "dc_set_waiting"}

\* C26: the dequeue decision, row by row on the status it reads; its results
\* are (no wait, no proceed) = the loop ends, (wait, no proceed) = the worker
\* waits on not_empty, (no wait, proceed) = the worker goes on to popleft.
\* stopped: the status becomes ending, the result is (no wait, no proceed) at
\* once when drain is off, and the row of ending decides when it is on;
\* ending: (no wait, no proceed) iff the queue is empty, else (no wait, proceed);
\* paused: (wait, no proceed), status unchanged, whatever the queue;
\* running or waiting: with an empty queue the status becomes waiting and the
\* result is (wait, no proceed), otherwise (no wait, proceed), status unchanged.
\* The decision never changes the queue.  (A status that is paused when the
\* decision writes waiting was running or waiting when the decision read it.)
C26_DequeueCondition ==
    [][(pc[Worker] \in DcPcs /\ pc'[Worker] # pc[Worker]) =>
        LET p == pc[Worker]
            q == pc'[Worker]
            empty == Len(requests_pool) = 0
        IN /\ requests_pool' = requests_pool
           /\ (p = "dc_stopped" /\ status = "stopped") =>
                  q = "dc_set_ending" /\ status' = status
           /\ (p = "dc_stopped" /\ status # "stopped") =>
                  q = "dc_ending" /\ status' = status
           /\ p = "dc_set_ending" =>
                  /\ status = "stopped" /\ status' = "ending"
                  /\ q = IF wait_enqueued = "True" THEN "dc_ending" ELSE "end"
           /\ (p = "dc_ending" /\ status = "ending") =>
                  /\ status' = status
                  /\ q = IF empty THEN "end" ELSE "dc_paused"
           /\ (p = "dc_ending" /\ status # "ending") =>
                  q = "dc_paused" /\ status' = status
           /\ (p = "dc_paused" /\ status = "ending") =>
                  ~empty /\ q = "dq_pop" /\ status' = status
           /\ (p = "dc_paused" /\ status = "paused") =>
                  /\ q = "dq_wait" /\ status' = status
                  /\ not_empty' = NoThread /\ ne_waiters' = Append(ne_waiters, Worker)
           /\ (p = "dc_paused" /\ status \in {"running", "waiting"}) =>
                  /\ status' = status
                  /\ q = IF empty THEN "dc_set_waiting" ELSE "dq_pop"
           /\ (p = "dc_set_waiting" /\ status \in {"running", "waiting", "paused"}) =>
                  /\ empty /\ status' = "waiting"
                  /\ q = "dq_wait"
                  /\ not_empty' = NoThread /\ ne_waiters' = Append(ne_waiters, Worker)
           /\ status \in {"stopped", "ending", "paused", "running", "waiting"} =>
                  q \in {"end", "dq_wait", "dq_pop"} \cup DcPcs]_vars

\* shutdown(wait_enqueued=True) found requests enqueued: the decision has made
\* the status ending and lets the worker take the next one
C26_Witness ==
    /\ pc[Worker] = "dq_pop"
    /\ status = "ending"
    /\ wait_enqueued = "True"
    /\ requests_pool # <<>>

\* C27: _dequeue_request calls the decision again after every wake-up from
\* not_empty.wait(); when the decision says proceed it takes the head of the
\* queue, sets the status to running unless the status is stopped or ending,
\* which it leaves as it is, and returns the request taken; when the decision
\* ends the loop it returns no request and the queue is as it was.
C27_DequeueRequest ==
    [][pc'[Worker] # pc[Worker] =>
        LET p == pc[Worker]
            q == pc'[Worker]
        IN /\ p = "dq_wait" => q = "dq_woken"
           /\ p = "dq_woken" => q = "dc_stopped" /\ not_empty' = Worker
           /\ p = "dq_pop" =>
                  /\ requests_pool # <<>>
                  /\ next_request' = Head(requests_pool)
                  /\ requests_pool' = Tail(requests_pool)
                  /\ q = "dq_restore_read"
           /\ p \in {"dq_restore_read", "dq_restore_read2"} =>
                  /\ q \in {"dq_restore_read2", "dq_restore_set"}
                  /\ status' = status /\ requests_pool' = requests_pool
           /\ p = "dq_restore_set" =>
                  /\ status' = IF status \in {"stopped", "ending"} THEN status ELSE "running"
                  /\ q = "sp_enter"
                  /\ next_request' = next_request /\ requests_pool' = requests_pool
                  /\ not_empty' = NoThread
           /\ (p \in DcPcs /\ q = "end") =>
                  /\ requests_pool' = requests_pool /\ next_request' = next_request
                  /\ not_empty' = NoThread]_vars

\* C28: no step takes a request off the queue while the status is paused.
C28_NoDequeueWhilePaused ==
    [][Len(requests_pool') < Len(requests_pool) => status # "paused"]_vars

\* C29: the send step of the loop.  When session.send returns, the handle of
\* the dequeued request is finished with the response and then the success
\* counter grows by exactly 1, the failure counter staying as it is; when
\* session.send raises, the handle is finished with the exception and then the
\* failure counter grows by exactly 1, the success counter staying as it is;
\* no step of the send step raises out of the loop.
C29_SendRequest ==
    [][(pc[Worker] \in {"send", "sending", "inc_successes", "inc_failures"}
            /\ pc'[Worker] # pc[Worker]) =>
        LET p == pc[Worker]
            q == pc'[Worker]
            h == handles'[next_request]
        IN /\ q # "crashed"
           /\ p = "send" => q = "sending" /\ ~handles[next_request].finished
           /\ p = "sending" =>
                  /\ h.finished
                  /\ \/ q = "inc_successes" /\ h.response \in Responses /\ h.exception = None
                     \/ q = "inc_failures" /\ h.exception \in Exceptions /\ h.response = None
                  /\ successes' = successes /\ failures' = failures
                  /\ \A i \in DOMAIN handles : i # next_request => handles'[i] = handles[i]
           /\ p = "inc_successes" =>
                  /\ successes' = successes + 1 /\ failures' = failures
                  /\ handles' = handles /\ q = "dq_enter"
           /\ p = "inc_failures" =>
                  /\ failures' = failures + 1 /\ successes' = successes
                  /\ handles' = handles /\ q = "dq_enter"]_vars

\* two requests were sent, one answered and one failed, and both are counted
C29_Witness ==
    /\ Len(sent) = 2
    /\ pc[Worker] = "dq_enter"
    /\ handles[sent[1]].response \in Responses /\ handles[sent[1]].finished
    /\ handles[sent[2]].exception \in Exceptions /\ handles[sent[2]].finished
    /\ successes = 1
    /\ failures = 1

\* the places of the worker inside _send_request
SendPcs == {"send", "sending", "inc_successes", "inc_failures"}

\* C30: from the call of session.send to the update of the counter the worker
\* does not own not_empty, the monitor of the queue.
C30_SendOutsideQueueMonitor ==
    pc[Worker] \in SendPcs => not_empty # Worker

\* session.send has not returned yet and the step just made is the return of a
\* submit() that put its request on the queue
C30_Witness ==
    /\ pc[Worker] = "sending"
    /\ last_ret.name = "submit"
    /\ last_ret.err = OK
    /\ requests_pool # <<>>
    /\ requests_pool[Len(requests_pool)] = last_ret.req

(***************************************************************************)
(* Wake-ups, locks and races.                                              *)
(***************************************************************************)
\* request r was put on the queue / was handed to session.send
Enqueued(r) == \E i \in 1 .. Len(enq) : enq[i] = r
Sent(r) == \E j \in 1 .. Len(sent) : sent[j] = r

\* C31: in a run in which the throttler is never paused, every request whose
\* enqueue succeeded is handed to session.send, unless a shutdown comes first:
\* the notify of _enqueue_request is never lost between the loop's decision to
\* wait (status waiting) and its not_empty.wait().
C31_NoLostWakeup ==
    ([](status # "paused")) =>
        \A r \in ReqIds : Enqueued(r) ~> (Sent(r) \/ status \in DownStatuses)

\* a first request was sent, the loop went back to wait on the empty queue,
\* and the enqueue of a second request has woken it
C31_Witness ==
    /\ Len(sent) = 1
    /\ status = "waiting"
    /\ pc[Worker] = "dq_woken"
    /\ Len(requests_pool) = 1
    /\ ~Sent(requests_pool[1])

\* the places from which a thread's next step takes not_empty, takes
\* status_lock, takes the monitor of a handle
QueueMonitorPcs == {"dq_enter", "dq_woken", "sb_enqueue"}
StatusMonitorPcs == {"dc_stopped", "dc_set_ending", "dc_ending", "dc_paused",
                     "dc_set_waiting", "dq_restore_read", "dq_restore_read2",
                     "dq_restore_set", "sp_enter", "sp_woken", "inc_successes",
                     "inc_failures", "end", "st_read2", "st_set", "sd_read", "sd_set",
                     "sb_inc_failures", "we_woken"}
HandleMonitorPcs == {"sending", "sb_full", "sb_getter_wait"}

C33_PauseIsDurable ==
    [][(status = "paused" /\ status' # "paused") =>
          last_ret'.name \in {"unpause", "shutdown"}]_vars

\* C34: no request is put on the queue while the status is stopped, ending or
\* ended; and when the status is ended after a shutdown with drain enabled,
\* every request that was enqueued is finished.
C34_NoEnqueueAfterShutdown ==
    /\ [][Len(requests_pool') > Len(requests_pool) => status \notin DownStatuses]_vars
    /\ []((status = "ended" /\ wait_enqueued = "True") => AllEnqueuedFinished)

\* C35: a request is taken off the queue at most once and handed to
\* session.send at most once: the queue and the sequence of the sends hold no
\* request twice, a request taken or sent is not in the queue any more, a
\* request is never taken again; and the loop never finds the handle it
\* finishes already finished.
C35_AtMostOnce ==
    /\ [](/\ \A i, j \in 1 .. Len(sent) : sent[i] = sent[j] => i = j
          /\ \A i, j \in 1 .. Len(requests_pool) :
                requests_pool[i] = requests_pool[j] => i = j
          /\ \A i \in 1 .. Len(requests_pool) :
                ~Sent(requests_pool[i]) /\ requests_pool[i] # next_request
          /\ w_err # ThrottledRequestAlreadyFinished)
    /\ [][Len(requests_pool') < Len(requests_pool) =>
              /\ ~Sent(next_request')
              /\ ~handles[next_request'].finished
              /\ Enqueued(next_request')]_vars
    /\ [][Len(sent') > Len(sent) =>
              sent' = Append(sent, next_request) /\ ~handles[next_request].finished]_vars

\* both requests were taken and sent, each once, and the loop has ended
C35_Witness ==
    /\ Len(sent) = 2
    /\ sent[1] # sent[2]
    /\ requests_pool = <<>>
    /\ handles[sent[1]].finished /\ handles[sent[2]].finished
    /\ status = "ended"
    /\ pc[Worker] = "idle"

\* C36: every change of the status, by the checked setter or by a direct write
\* (pause, unpause, _end), is an edge of the adjacency table; the status
\* becomes ended only from ending; and _main_loop never ends with an exception
\* of the setter.
C36_ChangesFollowTable ==
    /\ [][status' # status =>
              /\ status \in DOMAIN AdjacencyTable
              /\ status' \in AdjacencyTable[status]]_vars
    /\ [][pc[Worker] = "end" /\ pc'[Worker] # "end" => status = "ending"]_vars
    /\ [](pc[Worker] # "crashed" /\ w_err = None)

\* the place of a status on the way down, 0 for a status before shutdown
DownRank(s) == CASE s = "stopped" -> 1 [] s = "ending" -> 2 [] s = "ended" -> 3
                 [] OTHER -> 0

\* C37: once the status is stopped, ending or ended, every later status is one
\* of the three and never an earlier one of them.
C37_ShutdownIsIrreversible ==
    [][(status \in DownStatuses) => DownRank(status') >= DownRank(status)]_vars

\* a start() that passed both of its tests before the shutdown is about to
\* assign running to a throttler that is already shut down
C37_Witness ==
    /\ status \in DownStatuses
    /\ \E c \in Callers : pc[c] = "st_set"

\* the handles made by the throttler that are finished
FinishedHandles == {i \in DOMAIN handles : handles[i].finished}

\* C38: the counters never decrease and a step adds at most 1 to their sum,
\* for a request whose handle is finished; in every state their sum is at most
\* the number of finished handles, and it is that number whenever no caller is
\* inside submit and the loop is not inside _send_request.
C38_CountersMatchHandles ==
    /\ [][/\ successes' >= successes /\ failures' >= failures
          /\ successes' + failures' <= successes + failures + 1
          /\ (pc[Worker] \in SendPcs /\ successes' + failures' > successes + failures
                  /\ pc'[Worker] # pc[Worker]) => next_request \in FinishedHandles
          /\ \A c \in Callers :
                (pc[c] = "sb_inc_failures" /\ failures' > failures /\ pc'[c] # pc[c]) =>
                    cloc[c].req \in FinishedHandles]_vars
    /\ [](successes + failures <= Cardinality(FinishedHandles))
    /\ []((pc[Worker] \notin SendPcs /\ \A c \in Callers : pc[c] \notin SubmitPcs) =>
              successes + failures = Cardinality(FinishedHandles))

\* one request was sent and answered, another could not be prepared, both are
\* counted and nothing is in progress
C38_Witness ==
    /\ successes = 1
    /\ failures = 1
    /\ Cardinality(FinishedHandles) = 2
    /\ Len(sent) = 1
    /\ pc[Worker] \notin SendPcs
    /\ \A c \in Callers : pc[c] \notin SubmitPcs

\* C39: while the loop is inside time.sleep it owns neither status_lock nor
\* not_empty.
C39_SleepHoldsNoMonitor ==
    pc[Worker] = "sp_sleep" => status_lock # Worker /\ not_empty # Worker

\* C40: _main_loop is submitted to the executor at most once, that is, only
\* when no loop is queued, runs or has run, so that at most one start()
\* succeeds; and a start() that ends without submitting the loop has not
\* changed the status and, if it had set it to running, does not leave it so.
C40_StartIsAtomic ==
    /\ [](executor_queue + (IF pc[Worker] = "idle" THEN 0 ELSE 1) <= 1)
    /\ [][executor_queue' > executor_queue => ~Started /\ status # "ended"]_vars
    /\ [][\A c \in Callers :
            (/\ pc[c] \in {"st_read2", "st_set", "st_submit"} /\ pc'[c] = "idle"
             /\ executor_queue' = executor_queue) =>
                /\ status' = status
                /\ pc[c] = "st_submit" => status # "running"]_vars

=============================================================================
